---- MODULE Spec2Model ----
(***************************************************************************)
(* Router health assistant: the device orchestrator (main.py), the         *)
(* interactive command session (collectors/cisco_ios.py), the component    *)
(* analyzers (analyzers/*.py) and the health scorer                        *)
(* (scoring/health_score.py).                                              *)
(*                                                                         *)
(* Six specifications share this module:                                   *)
(*   ScorerSpec   HealthScorer.calculate_overall_health on every           *)
(*                combination of component statuses;                       *)
(*   Spec         main(): the worker pool, process_device per device and   *)
(*                the merge of the results into device_summary;            *)
(*   SessionSpec  collect_from_device(): one session on one channel, with  *)
(*                the device as the environment;                           *)
(*   FairSessionSpec  SessionSpec with the session's task always running;  *)
(*   FairSpec     Spec with the main thread and the pool workers always    *)
(*                running;                                                 *)
(*   AnalyzerSpec one call of one analyzer, or of the analysis part of     *)
(*                process_device, on every input of a bounded set.         *)
(***************************************************************************)
EXTENDS Integers, Sequences, FiniteSets, TLC

VARIABLES
    \* ---- ScorerSpec
    sc_in,          \* key -> status or Absent: the component_statuses of the call
    sc_out,         \* its return value, None before the call
    \* ---- AnalyzerSpec (analyzers/*.py)
    an_fn,          \* the function called, "idle" when none is
    an_in,          \* its argument: the raw text and the structured data
    an_out,         \* its return value
    an_done,        \* the call has returned
    \* ---- Spec (main.py)
    mainPc,         \* position of the main thread in main()
    hasProxy,       \* testbed: device -> it has a connection via terminal_server
    submitted,      \* number of futures created so far (devices 1..submitted)
    task,           \* device -> state of its process_device task
    cres,           \* device -> collection_result held by the running task
    fut,            \* device -> outcome of the future (return value or exception)
    yielded,        \* devices whose future as_completed has yielded
    cur,            \* device_name of the loop body in progress
    summary_lock,   \* owner of the lock, Free when not held
    device_summary, \* the shared report mapping
    writeLog,       \* history: who wrote to device_summary, and the lock owner then
    \* ---- SessionSpec (collectors/cisco_ios.py)
    pc,             \* position of the task in collect_from_device
    commands,       \* the commands argument
    cmd_index,      \* position of the for loop in commands, 0 before the loop
    alive,          \* the remote end of the channel is up
    pending,        \* device: text it has still to send
    rx,             \* channel: text received and not yet read
    buffer,         \* _wait_for_prompt: buffer
    output,         \* _robust_read_until_prompt: output
    elapsed,        \* time.time() - start_time of the running loop, in ticks
    attempts,       \* _clear_buffer: attempts
    result,         \* collect_from_device: result
    ssh,            \* the SSHClient: "none", "open" or "closed"
    channel,        \* the shell channel: "none", "open" or "closed"
    sent            \* history: what channel.send has sent, newlines left out

None == "None"
Free == "free"

\* dict.get(key, default)
Get(d, k, default) == IF k \in DOMAIN d THEN d[k] ELSE default

\* d.update(e) / d[k] = v on a mapping modelled as a function
Update(d, e) == [k \in (DOMAIN d) \cup (DOMAIN e) |-> IF k \in DOMAIN e THEN e[k] ELSE d[k]]

EmptyDict == [k \in {} |-> None]

(***************************************************************************)
(* scoring/health_score.py                                                 *)
(***************************************************************************)
\* A wrong scorer: OSPF WARNING treated like CRITICAL.
calculate_overall_health_strict_ospf(component_statuses) ==
    LET interface_health == Get(component_statuses, "interface_health", "Unknown")
        cpu_health       == Get(component_statuses, "cpu_health", "Unknown")
        memory_health    == Get(component_statuses, "memory_health", "Unknown")
        bgp_health       == Get(component_statuses, "bgp_health", "NOT_CONFIGURED")
        ospf_health      == Get(component_statuses, "ospf_health", "NOT_CONFIGURED")
    IN  IF ~(interface_health = "Good" /\ cpu_health = "OK" /\ memory_health = "OK")
        THEN "UNHEALTHY"
        ELSE IF bgp_health # "NOT_CONFIGURED" /\ bgp_health # "OK"
        THEN "UNHEALTHY"
        ELSE IF ospf_health # "NOT_CONFIGURED" /\ ospf_health # "OK"
        THEN "UNHEALTHY"
        ELSE "HEALTHY"

\* A wrong scorer: a missing interface, CPU or memory status taken as good.
calculate_overall_health_default_good(component_statuses) ==
    LET interface_health == Get(component_statuses, "interface_health", "Good")
        cpu_health       == Get(component_statuses, "cpu_health", "OK")
        memory_health    == Get(component_statuses, "memory_health", "OK")
        bgp_health       == Get(component_statuses, "bgp_health", "NOT_CONFIGURED")
        ospf_health      == Get(component_statuses, "ospf_health", "NOT_CONFIGURED")
    IN  IF ~(interface_health = "Good" /\ cpu_health = "OK" /\ memory_health = "OK")
        THEN "UNHEALTHY"
        ELSE IF bgp_health # "NOT_CONFIGURED" /\ bgp_health # "OK"
        THEN "UNHEALTHY"
        ELSE IF ospf_health # "NOT_CONFIGURED" /\ ospf_health = "CRITICAL"
        THEN "UNHEALTHY"
        ELSE "HEALTHY"

calculate_overall_health(component_statuses) ==
    LET interface_health == Get(component_statuses, "interface_health", "Unknown")
        cpu_health       == Get(component_statuses, "cpu_health", "Unknown")
        memory_health    == Get(component_statuses, "memory_health", "Unknown")
        bgp_health       == Get(component_statuses, "bgp_health", "NOT_CONFIGURED")
        ospf_health      == Get(component_statuses, "ospf_health", "NOT_CONFIGURED")
        critical_checks  == << interface_health \in {"Good"},
                               cpu_health \in {"OK"},
                               memory_health \in {"OK"} >>
    IN  IF ~(\A i \in 1..Len(critical_checks) : critical_checks[i])
        THEN "UNHEALTHY"
        ELSE IF bgp_health # "NOT_CONFIGURED" /\ bgp_health \notin {"OK"}
        THEN "UNHEALTHY"
        ELSE IF ospf_health # "NOT_CONFIGURED" /\ ospf_health = "CRITICAL"
        THEN "UNHEALTHY"
        ELSE "HEALTHY"

\* The status values the five analyzers can produce, plus the other
\* analyzers' values, so that every key is exercised with foreign values too.
StatusValues == {"Good", "Warning", "OK", "WARNING", "CRITICAL", "Unknown", "NOT_CONFIGURED"}

ScoreKeys == {"interface_health", "cpu_health", "memory_health", "bgp_health", "ospf_health"}

\* Every component_statuses mapping: each key is missing or has any status value.
Absent == "<absent>"
ScorerInputs == [ScoreKeys -> StatusValues \cup {Absent}]
AsDict(choice) == [k \in { x \in DOMAIN choice : choice[x] # Absent } |-> choice[k]]

(***************************************************************************)
(* Command output as the analyzers see it.                                 *)
(*   raw         the text, a sequence of lines; a line is                  *)
(*               [tags, parts, num]: the labelled substrings it contains,  *)
(*               its whitespace-separated fields, and the number its       *)
(*               labelled value parses to (-1 when int() would raise); a   *)
(*               line with a field times stands for that many consecutive  *)
(*               lines of the same content;                                *)
(*   structured  parse_output()'s value: None or a list of dicts.          *)
(***************************************************************************)
NoList == [isList |-> FALSE, items |-> << >>]
List(s) == [isList |-> TRUE, items |-> s]
Line(tags, parts, num) == [tags |-> tags, parts |-> parts, num |-> num]
Output(raw, structured) == [raw |-> raw, structured |-> structured]
Run(l, n) == [tags |-> l.tags, parts |-> l.parts, num |-> l.num, times |-> n]
Times(l) == IF "times" \in DOMAIN l THEN l.times ELSE 1

\* str.lower() on the words the analyzers lower
Lower(s) ==
    CASE s \in {"UP", "Up"} -> "up"
      [] s \in {"DOWN", "Down"} -> "down"
      [] s \in {"Unassigned", "UNASSIGNED"} -> "unassigned"
      [] OTHER -> s

\* str.upper() on the OSPF neighbor and interface states of the model; a
\* string not listed has no lower-case letter
Upper(s) ==
    CASE s \in {"full/dr", "Full/DR"} -> "FULL/DR"
      [] s \in {"2way/drother", "2Way/DROther"} -> "2WAY/DROTHER"
      [] s \in {"down", "Down"} -> "DOWN"
      [] s \in {"waiting", "Waiting"} -> "WAITING"
      [] s \in {"up", "Up"} -> "UP"
      [] s \in {"dr", "Dr"} -> "DR"
      [] s \in {"Unknown", "unknown"} -> "UNKNOWN"
      [] OTHER -> s

\* int(s): the decimal strings of the model; any other string raises ValueError
NumTok == [s \in {"0", "1", "2", "5", "7", "29", "79", "80", "100"} |->
             CASE s = "0" -> 0 [] s = "1" -> 1 [] s = "2" -> 2 [] s = "5" -> 5
               [] s = "7" -> 7 [] s = "29" -> 29 [] s = "79" -> 79 [] s = "80" -> 80
               [] s = "100" -> 100]
IsInt(s) == s \in DOMAIN NumTok
IntOf(s) == NumTok[s]

\* re.match(r'^\d+\.\d+\.\d+\.\d+', line.strip()): decided by the first field
IPv4Tokens == {"10.0.0.2", "10.0.0.3", "10.1.12.2", "10.1.13.3"}
IsIPv4Line(l) == Len(l.parts) > 0 /\ l.parts[1] \in IPv4Tokens

\* 'FULL' in state
ContainsFULL(state) == state \in {"FULL", "FULL/DR", "FULL/BDR", "FULL/DROTHER", "FULL/-"}

\* SelectSeq with the elements mapped through f
RECURSIVE MapSeq(_, _)
MapSeq(f(_), s) == IF s = << >> THEN << >> ELSE << f(Head(s)) >> \o MapSeq(f, Tail(s))

(***************************************************************************)
(* analyzers/interface_analyzer.py                                         *)
(***************************************************************************)
\* (intf.get(key) or default).lower()
LowerOr(v, default) == Lower(IF v \in {None, ""} THEN default ELSE v)

\* the interfaces reported down
\* (the first: the protocol status left out of the test)
IntfIsDownLinkOnly(intf) ==
    /\ LowerOr(Get(intf, "ipaddr", None), "unassigned") # "unassigned"
    /\ LowerOr(Get(intf, "status", None), "") # "up"
IntfIsDown(intf) ==
    /\ LowerOr(Get(intf, "ipaddr", None), "unassigned") # "unassigned"
    /\ \/ LowerOr(Get(intf, "status", None), "") # "up"
       \/ LowerOr(Get(intf, "protocol", None), "") # "up"

IntfDownRecord(intf) ==
    [interface |-> Get(intf, "interface", "unknown"),
     status    |-> LowerOr(Get(intf, "status", None), ""),
     protocol  |-> LowerOr(Get(intf, "protocol", None), "")]

InterfaceVerdict(down_interfaces) ==
    [status          |-> IF down_interfaces # << >> THEN "Warning" ELSE "Good",
     interfaces_down |-> down_interfaces]

InterfaceAnalyzer_analyze(structured_data, raw_output) ==
    InterfaceVerdict(IF structured_data.isList
                     THEN MapSeq(IntfDownRecord, SelectSeq(structured_data.items, IntfIsDown))
                     ELSE << >>)

(***************************************************************************)
(* analyzers/routing_analyzer.py                                           *)
(***************************************************************************)
RoutingAnalyzer_analyze(structured_data, raw_output) ==
    [status       |-> "OK",
     total_routes |-> IF structured_data.isList THEN Len(structured_data.items) ELSE 0]

(***************************************************************************)
(* analyzers/cpu_analyzer.py                                               *)
(***************************************************************************)
CPU_THRESHOLD == 70

CpuVerdict(cpu_percent) ==
    [status      |-> IF cpu_percent < CPU_THRESHOLD THEN "OK" ELSE "CRITICAL",
     cpu_percent |-> cpu_percent]

\* the fallback: the first "CPU utilization" line whose value parses decides
RECURSIVE CpuManual(_)
CpuManual(lines) ==
    IF lines = << >> THEN [status |-> "Unknown", cpu_percent |-> 0]
    ELSE IF "CPU utilization" \in Head(lines).tags /\ Head(lines).num >= 0
         THEN CpuVerdict(Head(lines).num)
         ELSE CpuManual(Tail(lines))

\* int(cpu_str.strip("%")), or the fallback when it raises
CpuFromStr(cpu_str, raw_output) ==
    IF IsInt(cpu_str) THEN CpuVerdict(IntOf(cpu_str)) ELSE CpuManual(raw_output)

\* structured_data[0].get("cpu_utilization", "0%") first
CPUAnalyzer_analyze(structured_data, raw_output) ==
    IF structured_data.isList /\ Len(structured_data.items) > 0
    THEN CpuFromStr(Get(structured_data.items[1], "cpu_utilization", "0"), raw_output)
    ELSE CpuManual(raw_output)

(***************************************************************************)
(* analyzers/memory_analyzer.py                                            *)
(***************************************************************************)
MEMORY_THRESHOLD == 80

\* int((used / total) * 100) in double arithmetic: the floor of 100*used/total,
\* except where the quotient is exactly p/100 and (p/100)*100 rounds below p.
FloatShort == {29, 57, 58}
PyTruncFix(p, exact) == IF exact /\ p \in FloatShort THEN p - 1 ELSE p
PyTruncPercent(used, total) ==
    PyTruncFix((100 * used) \div total, (100 * used) % total = 0)

MemInit == [total |-> 0, used |-> 0, free |-> 0, percent |-> 0, status |-> "Unknown"]

MemStatus(m, percent) ==
    [m EXCEPT !.percent = percent,
              !.status = IF percent < MEMORY_THRESHOLD THEN "OK" ELSE "CRITICAL"]

MemJudge(m) == IF m.total > 0 THEN MemStatus(m, PyTruncPercent(m.used, m.total)) ELSE m

\* the three int() conversions in the order given; the first that raises stops
\* the assignments, the earlier ones stay assigned
RECURSIVE MemAssign(_, _, _)
MemAssign(m, vals, order) ==
    IF order = << >> THEN [m |-> m, ok |-> TRUE]
    ELSE IF IsInt(vals[Head(order)])
         THEN MemAssign([m EXCEPT ![Head(order)] = IntOf(vals[Head(order)])], vals, Tail(order))
         ELSE [m |-> m, ok |-> FALSE]

MemVals(t, u, f) == [total |-> t, used |-> u, free |-> f]

\* manual parsing: the header line, then the Processor row
RECURSIVE MemManual(_, _, _)
MemRowDone(a, lines, i) == IF a.ok THEN MemJudge(a.m) ELSE MemManual(lines, i + 1, a.m)

MemRow(parts, lines, i, m) ==
    IF Len(parts) >= 5
    THEN MemRowDone(MemAssign(m, MemVals(parts[3], parts[4], parts[5]),
                              << "total", "used", "free" >>), lines, i)
    ELSE MemManual(lines, i + 1, m)

MemManual(lines, i, m) ==
    IF i > Len(lines) THEN m
    ELSE IF {"Head", "Total(b)", "Used(b)"} \subseteq lines[i].tags /\ i + 1 <= Len(lines)
            /\ Len(lines[i + 1].parts) > 0 /\ lines[i + 1].parts[1] = "Processor"
         THEN MemRow(lines[i + 1].parts, lines, i, m)
         ELSE MemManual(lines, i + 1, m)

MemPoolDone(a, raw_output) == IF a.ok THEN MemJudge(a.m) ELSE MemManual(raw_output, 1, a.m)

\* structured data: the first pool whose name contains "processor"
RECURSIVE MemStructured(_, _)
MemStructured(entries, raw_output) ==
    IF entries = << >> THEN MemInit
    ELSE IF Get(Head(entries), "pool", "") \in {"processor", "Processor"}
         THEN MemPoolDone(MemAssign(MemInit,
                                    MemVals(Get(Head(entries), "total", "0"),
                                            Get(Head(entries), "used", "0"),
                                            Get(Head(entries), "free", "0")),
                                    << "total", "free", "used" >>), raw_output)
         ELSE MemStructured(Tail(entries), raw_output)

MB == 1048576
ToMB(bytes) == IF bytes > 0 THEN bytes \div MB ELSE 0

MemoryVerdict(m) ==
    [status              |-> m.status,
     memory_used_percent |-> m.percent,
     memory_total_mb     |-> ToMB(m.total),
     memory_used_mb      |-> ToMB(m.used),
     memory_free_mb      |-> ToMB(m.free)]

MemoryAnalyzer_analyze(structured_data, raw_output) ==
    MemoryVerdict(IF structured_data.isList /\ Len(structured_data.items) > 0
                  THEN MemStructured(structured_data.items, raw_output)
                  ELSE MemManual(raw_output, 1, MemInit))

(***************************************************************************)
(* collectors/device_collector.py: the memory branch of                    *)
(* process_parsed_data, which main.py does not call                        *)
(***************************************************************************)
LabelField(label) ==
    CASE label = "Total:" -> "total" [] label = "Used:" -> "used" [] label = "Free:" -> "free"

\* pattern 1: every "Total:", "Used:", "Free:" takes the int() of the next field;
\* the first that raises stops the loop, the earlier ones stay assigned
RECURSIVE LegacyLabels(_, _, _)
LegacyLabels(parts, i, m) ==
    IF i > Len(parts) THEN [m |-> m, ok |-> TRUE]
    ELSE IF parts[i] \notin {"Total:", "Used:", "Free:"} THEN LegacyLabels(parts, i + 1, m)
    ELSE IF i + 1 <= Len(parts) /\ IsInt(parts[i + 1])
         THEN LegacyLabels(parts, i + 1, [m EXCEPT ![LabelField(parts[i])] = IntOf(parts[i + 1])])
         ELSE [m |-> m, ok |-> FALSE]

RECURSIVE LegacyManual(_, _)
LegacyRowDone(a, lines) == IF a.ok THEN MemJudge(a.m) ELSE LegacyManual(Tail(lines), a.m)

\* pattern 2: "Processor" without "Pool": total, used, free in fields 2 to 4
LegacyRow(l, lines, m) ==
    IF "Processor" \in l.tags /\ "Pool" \notin l.tags /\ Len(l.parts) >= 4
    THEN LegacyRowDone(MemAssign(m, MemVals(l.parts[2], l.parts[3], l.parts[4]),
                                 << "total", "used", "free" >>), lines)
    ELSE LegacyManual(Tail(lines), m)

LegacyLabelsDone(a, lines) == IF a.ok THEN MemJudge(a.m) ELSE LegacyRow(Head(lines), lines, a.m)

LegacyManual(lines, m) ==
    IF lines = << >> THEN m
    ELSE IF {"Processor", "Total:"} \subseteq Head(lines).tags
         THEN LegacyLabelsDone(LegacyLabels(Head(lines).parts, 1, m), lines)
         ELSE LegacyRow(Head(lines), lines, m)

LegacyPoolDone(a, raw_output) == IF a.ok THEN MemJudge(a.m) ELSE LegacyManual(raw_output, a.m)

RECURSIVE LegacyStructured(_, _)
LegacyStructured(entries, raw_output) ==
    IF entries = << >> THEN MemInit
    ELSE IF Get(Head(entries), "pool", "") \in {"processor", "Processor"}
         THEN LegacyPoolDone(MemAssign(MemInit,
                                       MemVals(Get(Head(entries), "total", "0"),
                                               Get(Head(entries), "used", "0"),
                                               Get(Head(entries), "free", "0")),
                                       << "total", "used", "free" >>), raw_output)
         ELSE LegacyStructured(Tail(entries), raw_output)

process_parsed_data_memory(structured_data, raw_output) ==
    MemoryVerdict(IF structured_data.isList /\ Len(structured_data.items) > 0
                  THEN LegacyStructured(structured_data.items, raw_output)
                  ELSE LegacyManual(raw_output, MemInit))

(***************************************************************************)
(* utils/parsers.py and analyzers/bgp_analyzer.py                          *)
(***************************************************************************)
FLAP_THRESHOLD == 5

\* str(state).isdigit()
IsDigit(s) == IsInt(s)

\* (the first: column 10 copied into state, numeric or not)
BgpRowRecordStateCopied(parts) ==
    [neighbor |-> parts[1], as |-> parts[3], state_pfxrcd |-> parts[10], state |-> parts[10]]
BgpRowRecord(parts) ==
    [neighbor |-> parts[1], as |-> parts[3], state_pfxrcd |-> parts[10],
     state |-> IF IsInt(parts[10]) THEN "Established" ELSE parts[10]]

RECURSIVE parse_bgp_summary(_)
parse_bgp_summary(lines) ==
    IF lines = << >> THEN << >>
    ELSE IF IsIPv4Line(Head(lines)) /\ Len(Head(lines).parts) >= 10
         THEN << BgpRowRecord(Head(lines).parts) >> \o parse_bgp_summary(Tail(lines))
         ELSE parse_bgp_summary(Tail(lines))

BgpState(neighbor) == Get(neighbor, "state", Get(neighbor, "state_pfxrcd", "Unknown"))
\* state == 'Established' or str(state).isdigit()
\* (the first: a numeric state not counted as established)
BgpIsUpByNameOnly(neighbor) == BgpState(neighbor) = "Established"
BgpIsUp(neighbor) == BgpState(neighbor) = "Established" \/ IsDigit(BgpState(neighbor))
BgpIsDown(neighbor) == ~BgpIsUp(neighbor)

BgpDownRecord(neighbor) ==
    [neighbor |-> Get(neighbor, "neighbor", "Unknown"),
     as       |-> Get(neighbor, "as", "Unknown"),
     state    |-> BgpState(neighbor)]

BgpSummaryVerdict(bgp_neighbors) ==
    IF bgp_neighbors = << >>
    THEN [status |-> "NOT_CONFIGURED", total_neighbors |-> 0,
          established_neighbors |-> 0, down_neighbors |-> << >>,
          neighbors_summary |-> << >>]
    ELSE [status |-> IF Len(SelectSeq(bgp_neighbors, BgpIsUp)) = Len(bgp_neighbors)
                     THEN "OK" ELSE "CRITICAL",
          total_neighbors |-> Len(bgp_neighbors),
          established_neighbors |-> Len(SelectSeq(bgp_neighbors, BgpIsUp)),
          down_neighbors |-> MapSeq(BgpDownRecord, SelectSeq(bgp_neighbors, BgpIsDown)),
          neighbors_summary |-> bgp_neighbors]

BGPAnalyzer_analyze_summary(structured_data, raw_output) ==
    BgpSummaryVerdict(IF structured_data.isList /\ Len(structured_data.items) > 0
                      THEN structured_data.items
                      ELSE parse_bgp_summary(raw_output))

\* A route_flaps value is << "int", n >> (the manual parser's int) or << "str", n >>
\* (a string, as TextFSM yields).
IntVal(n) == << "int", n >>
StrVal(n) == << "str", n >>

\* the line scan with one current record; c.open is "current_neighbor is set".
\* neighbor_details holds the record itself, not a copy: an entry appended while
\* the record stays current shows the record's later updates.  c.refs is the
\* number of such entries; acc holds the entries of the records no longer
\* current.
NoNeighbor == [open |-> FALSE, refs |-> 0, neighbor |-> None, remote_as |-> None,
               state |-> None, prefixes_received |-> 0, route_flaps |-> 0,
               last_reset |-> FALSE]

BgpDetail(c) == [neighbor |-> c.neighbor, remote_as |-> c.remote_as, state |-> c.state,
                 prefixes_received |-> c.prefixes_received,
                 route_flaps |-> IntVal(c.route_flaps), last_reset |-> c.last_reset]

IsMarker(l) == "BGP neighbor is" \in l.tags

\* re.search(r'BGP neighbor is (\d+\.\d+\.\d+\.\d+)', line): the 4th field
MarkerMatches(l) == Len(l.parts) >= 4 /\ l.parts[4] \in IPv4Tokens

Copies(x, n) == [i \in 1..n |-> x]

\* a marker line appends the current record; when its regex matches, the
\* record is replaced and its entries change no more
BgpClose(l, c, acc) ==
    IF IsMarker(l) /\ c.open /\ MarkerMatches(l)
    THEN acc \o Copies(BgpDetail(c), c.refs + 1)
    ELSE acc

\* and opens a new one when its regex finds the IPv4 literal; when it does
\* not, the record appended stays current
BgpOpen(l, c) ==
    IF IsMarker(l) /\ MarkerMatches(l)
    THEN [NoNeighbor EXCEPT !.open = TRUE, !.neighbor = l.parts[4]]
    ELSE IF IsMarker(l) /\ c.open THEN [c EXCEPT !.refs = @ + 1]
    ELSE c

\* the labelled lines update the current record
BgpRemoteAs(l, c) ==
    IF c.open /\ "remote AS" \in l.tags THEN [c EXCEPT !.remote_as = l.parts[Len(l.parts)]] ELSE c
BgpStateLine(l, c) ==
    IF c.open /\ "BGP state =" \in l.tags THEN [c EXCEPT !.state = l.parts[Len(l.parts)]] ELSE c
BgpDropped(l, c) ==
    IF c.open /\ "Connections established" \in l.tags /\ l.num >= 0
    THEN [c EXCEPT !.route_flaps = l.num] ELSE c
BgpLastReset(l, c) ==
    IF c.open /\ "Last reset" \in l.tags THEN [c EXCEPT !.last_reset = TRUE] ELSE c
BgpAccepted(l, c) ==
    IF c.open /\ "prefixes accepted" \in l.tags /\ l.num >= 0
    THEN [c EXCEPT !.prefixes_received = l.num] ELSE c

BgpLine(l, c) ==
    BgpAccepted(l, BgpLastReset(l, BgpDropped(l, BgpStateLine(l, BgpRemoteAs(l, BgpOpen(l, c))))))

RECURSIVE BgpScan(_, _, _)
BgpScan(lines, c, acc) ==
    IF lines = << >> THEN IF c.open THEN acc \o Copies(BgpDetail(c), c.refs + 1) ELSE acc
    ELSE BgpScan(Tail(lines), BgpLine(Head(lines), c), BgpClose(Head(lines), c, acc))

parse_bgp_neighbors(lines) == BgpScan(lines, NoNeighbor, << >>)

\* neighbor.get('route_flaps', 0) > FLAP_THRESHOLD raises TypeError on a str
FlapsIsStr(neighbor) == Get(neighbor, "route_flaps", IntVal(0))[1] = "str"
IsHighFlap(neighbor) == Get(neighbor, "route_flaps", IntVal(0))[2] > FLAP_THRESHOLD
FlapRecord(neighbor) == [neighbor |-> Get(neighbor, "neighbor", "Unknown"),
                         flaps |-> Get(neighbor, "route_flaps", IntVal(0))[2]]

BgpNeighborsVerdict(neighbor_details) ==
    IF \E i \in 1..Len(neighbor_details) : FlapsIsStr(neighbor_details[i])
    THEN [exc |-> "TypeError", high_flap_neighbors |-> << >>, neighbor_details |-> << >>]
    ELSE [exc |-> None,
          high_flap_neighbors |-> MapSeq(FlapRecord, SelectSeq(neighbor_details, IsHighFlap)),
          neighbor_details |-> neighbor_details]

BGPAnalyzer_analyze_neighbors(structured_data, raw_output) ==
    BgpNeighborsVerdict(IF structured_data.isList /\ Len(structured_data.items) > 0
                        THEN structured_data.items
                        ELSE parse_bgp_neighbors(raw_output))

(***************************************************************************)
(* analyzers/ospf_analyzer.py, config/thresholds.py                        *)
(***************************************************************************)
OSPF_LSA_FLOOD_THRESHOLD == 10000
OSPF_DEAD_TIME_WARNING_SECONDS == 10

\* _parse_dead_time: "HH:MM:SS" to seconds, -1 for None
DeadTimes == [s \in {"00:00:00", "00:00:05", "00:00:10", "00:00:11", "00:00:37", "00:05:00"} |->
                CASE s = "00:00:00" -> 0 [] s = "00:00:05" -> 5 [] s = "00:00:10" -> 10
                  [] s = "00:00:11" -> 11 [] s = "00:00:37" -> 37 [] s = "00:05:00" -> 300]
parse_dead_time(dead_time_str) ==
    IF dead_time_str \in DOMAIN DeadTimes THEN DeadTimes[dead_time_str] ELSE -1

OspfRowRecord(parts) ==
    [neighbor_id |-> parts[1], priority |-> parts[2], state |-> parts[3],
     dead_time |-> parts[4], address |-> parts[5], interface |-> parts[6],
     area |-> "0.0.0.0"]

RECURSIVE parse_ospf_neighbors_manual(_)
parse_ospf_neighbors_manual(lines) ==
    IF lines = << >> THEN << >>
    ELSE IF IsIPv4Line(Head(lines)) /\ Len(Head(lines).parts) >= 6
         THEN << OspfRowRecord(Head(lines).parts) >> \o parse_ospf_neighbors_manual(Tail(lines))
         ELSE parse_ospf_neighbors_manual(Tail(lines))

OspfState(neighbor) == Upper(Get(neighbor, "state", ""))
OspfArea(neighbor) == Get(neighbor, "area", "0.0.0.0")
OspfIsFull(neighbor) == ContainsFULL(OspfState(neighbor))
OspfIsDown(neighbor) == ~OspfIsFull(neighbor)
\* dead_seconds is not None and dead_seconds <= OSPF_DEAD_TIME_WARNING_SECONDS
\* (the first: the threshold itself not counted as low)
IsLowDeadBelow(dead_seconds) ==
    dead_seconds # -1 /\ dead_seconds < OSPF_DEAD_TIME_WARNING_SECONDS
IsLowDead(dead_seconds) == dead_seconds # -1 /\ dead_seconds <= OSPF_DEAD_TIME_WARNING_SECONDS
OspfLowDead(neighbor) == IsLowDead(parse_dead_time(Get(neighbor, "dead_time", "00:00:00")))
OspfDownRecord(neighbor) ==
    [neighbor_id |-> Get(neighbor, "neighbor_id", "Unknown"), state |-> OspfState(neighbor),
     interface |-> Get(neighbor, "interface", "Unknown"), area |-> OspfArea(neighbor)]
OspfLowRecord(neighbor) ==
    [neighbor_id |-> Get(neighbor, "neighbor_id", "Unknown"),
     interface |-> Get(neighbor, "interface", "Unknown"),
     dead_time |-> Get(neighbor, "dead_time", "00:00:00")]

\* the per-area buckets, one neighbor at a time
NewBucket == [total |-> 0, full |-> 0, down |-> 0]
Count(bucket, full) ==
    IF full THEN [bucket EXCEPT !.total = @ + 1, !.full = @ + 1]
    ELSE [bucket EXCEPT !.total = @ + 1, !.down = @ + 1]
\* (the first: a neighbor that is not FULL left out of its area's down count)
BucketedDownNotCounted(by_area, area, full) ==
    Update(by_area, (area :> [Get(by_area, area, NewBucket) EXCEPT
                                 !.total = @ + 1,
                                 !.full = IF full THEN @ + 1 ELSE @]))
Bucketed(by_area, area, full) ==
    Update(by_area, (area :> Count(Get(by_area, area, NewBucket), full)))

RECURSIVE OspfBuckets(_, _)
OspfBuckets(neighbors, by_area) ==
    IF neighbors = << >> THEN by_area
    ELSE OspfBuckets(Tail(neighbors),
                     Bucketed(by_area, OspfArea(Head(neighbors)), OspfIsFull(Head(neighbors))))

OspfStatus(down_neighbors, low_dead_time_neighbors) ==
    IF down_neighbors # << >> THEN "CRITICAL"
    ELSE IF low_dead_time_neighbors # << >> THEN "WARNING"
    ELSE "OK"

OspfNeighborsResult(neighbors, down_neighbors, low_dead_time_neighbors) ==
    [status |-> OspfStatus(down_neighbors, low_dead_time_neighbors),
     total_neighbors |-> Len(neighbors),
     full_neighbors |-> Len(SelectSeq(neighbors, OspfIsFull)),
     down_neighbors |-> down_neighbors,
     neighbors_by_area |-> OspfBuckets(neighbors, EmptyDict),
     low_dead_time_neighbors |-> low_dead_time_neighbors]

OspfNeighborsVerdict(neighbors) ==
    IF neighbors = << >>
    THEN [status |-> "NOT_CONFIGURED", total_neighbors |-> 0, full_neighbors |-> 0,
          down_neighbors |-> << >>, neighbors_by_area |-> EmptyDict,
          low_dead_time_neighbors |-> << >>]
    ELSE OspfNeighborsResult(neighbors,
                             MapSeq(OspfDownRecord, SelectSeq(neighbors, OspfIsDown)),
                             MapSeq(OspfLowRecord, SelectSeq(neighbors, OspfLowDead)))

OSPFAnalyzer_analyze_neighbors(structured_data, raw_output) ==
    OspfNeighborsVerdict(IF structured_data.isList /\ Len(structured_data.items) > 0
                         THEN structured_data.items
                         ELSE parse_ospf_neighbors_manual(raw_output))

\* A "<Type> Link States (Area <id>)" header line has the tags "Link States" and
\* "Area"; when the regex matches, its fields are << type, area >>.
IsLsaHeader(l) == "Link States" \in l.tags /\ "Area" \in l.tags /\ Len(l.parts) >= 2
LsaZero == [by_type |-> EmptyDict, by_area |-> EmptyDict, total |-> 0]

\* a header registers its type and area with a count of 0 unless they are known
LsaHeader(st, ty, ar) ==
    [st EXCEPT !.by_type = Update((ty :> 0), @), !.by_area = Update((ar :> 0), @)]

\* an entry line counts for the current type and area (n such lines count n)
LsaEntry(st, ty, ar, n) ==
    [st EXCEPT !.by_type = Update(@, (ty :> @[ty] + n)),
               !.by_area = IF ar # None THEN Update(@, (ar :> @[ar] + n)) ELSE @,
               !.total = @ + n]

LsaCount(l, ty, ar, st) ==
    IF ty # None /\ IsIPv4Line(l) /\ Len(l.parts) >= 3 THEN LsaEntry(st, ty, ar, Times(l)) ELSE st

RECURSIVE LsaScan(_, _, _, _)
LsaScan(lines, current_type, current_area, st) ==
    IF lines = << >> THEN st
    ELSE IF IsLsaHeader(Head(lines))
         THEN LsaScan(Tail(lines), Head(lines).parts[1], Head(lines).parts[2],
                      LsaCount(Head(lines), Head(lines).parts[1], Head(lines).parts[2],
                               LsaHeader(st, Head(lines).parts[1], Head(lines).parts[2])))
         ELSE LsaScan(Tail(lines), current_type, current_area,
                      LsaCount(Head(lines), current_type, current_area, st))

\* flooding_detected = total_lsas > OSPF_LSA_FLOOD_THRESHOLD
\* (the first: the threshold itself counted as flooding)
LsaVerdictFromThreshold(st) ==
    [status |-> IF st.total >= OSPF_LSA_FLOOD_THRESHOLD THEN "WARNING" ELSE "OK",
     total_lsas |-> st.total, lsa_by_type |-> st.by_type, lsa_by_area |-> st.by_area,
     flooding_detected |-> st.total >= OSPF_LSA_FLOOD_THRESHOLD]
LsaVerdict(st) ==
    [status |-> IF st.total > OSPF_LSA_FLOOD_THRESHOLD THEN "WARNING" ELSE "OK",
     total_lsas |-> st.total, lsa_by_type |-> st.by_type, lsa_by_area |-> st.by_area,
     flooding_detected |-> st.total > OSPF_LSA_FLOOD_THRESHOLD]

OSPFAnalyzer_analyze_database(structured_data, raw_output) ==
    LsaVerdict(LsaScan(raw_output, None, None, LsaZero))

\* re.match(r'^[A-Za-z]+[0-9/]+', line.strip()): decided by the first field
IntfTokens == {"Gi0/0", "Gi0/1", "Lo0"}
OspfIntfRecord(parts) == [interface |-> parts[1], area |-> parts[2], state |-> parts[3]]

RECURSIVE parse_ospf_interfaces_manual(_)
parse_ospf_interfaces_manual(lines) ==
    IF lines = << >> THEN << >>
    ELSE IF Len(Head(lines).parts) >= 4 /\ Head(lines).parts[1] \in IntfTokens
         THEN << OspfIntfRecord(Head(lines).parts) >> \o parse_ospf_interfaces_manual(Tail(lines))
         ELSE parse_ospf_interfaces_manual(Tail(lines))

\* if state and state.upper() in ['DOWN', 'WAITING']
OspfIntfIssue(intf) ==
    /\ Get(intf, "state", "Unknown") \notin {None, ""}
    /\ Upper(Get(intf, "state", "Unknown")) \in {"DOWN", "WAITING"}
\* 'issue' is f'Interface state is {state}', the state as it was given
OspfIssueRecord(intf) ==
    [interface |-> Get(intf, "interface", "Unknown"),
     issue |-> << "Interface state is", Get(intf, "state", "Unknown") >>,
     area |-> Get(intf, "area", "0.0.0.0")]

OspfInterfacesVerdict(interfaces) ==
    [status |-> IF SelectSeq(interfaces, OspfIntfIssue) # << >> THEN "WARNING" ELSE "OK",
     total_interfaces |-> Len(interfaces),
     issues |-> MapSeq(OspfIssueRecord, SelectSeq(interfaces, OspfIntfIssue))]

OSPFAnalyzer_analyze_interfaces(structured_data, raw_output) ==
    OspfInterfacesVerdict(IF structured_data.isList THEN structured_data.items
                          ELSE parse_ospf_interfaces_manual(raw_output))

(***************************************************************************)
(* config/commands.py                                                      *)
(***************************************************************************)
CISCO_IOS_COMMANDS ==
    << "show ip interface brief", "show ip route", "show processes cpu",
       "show memory statistics", "show ip bgp summary", "show ip bgp neighbors",
       "show ip ospf database", "show ip ospf neighbor", "show ip ospf interface brief" >>

(***************************************************************************)
(* main.py: process_device                                                 *)
(* The analysis state is [data, statuses, exc]: device_data,               *)
(* component_statuses, and the exception that left the function, if any.   *)
(* No analyzer call is wrapped in try/except.                              *)
(***************************************************************************)
Put(st, kvs) == [st EXCEPT !.data = Update(@, kvs)]
PutStatus(st, key, status, kvs) ==
    [st EXCEPT !.data = Update(@, (key :> status) @@ kvs),
               !.statuses = Update(@, (key :> status))]

Has(st, outputs, cmd) == st.exc = None /\ cmd \in DOMAIN outputs

InterfaceFields(st, verdict) ==
    PutStatus(st, "interface_health", verdict.status,
              ("interfaces_down" :> verdict.interfaces_down))
StepInterface(st, outputs) ==
    IF ~Has(st, outputs, "show ip interface brief") THEN st
    ELSE InterfaceFields(st, InterfaceAnalyzer_analyze(
                                 outputs["show ip interface brief"].structured,
                                 outputs["show ip interface brief"].raw))

RoutingFields(st, verdict) == Put(st, ("total_routes" :> verdict.total_routes))
StepRouting(st, outputs) ==
    IF ~Has(st, outputs, "show ip route") THEN st
    ELSE RoutingFields(st, RoutingAnalyzer_analyze(outputs["show ip route"].structured,
                                                   outputs["show ip route"].raw))

CpuFields(st, verdict) ==
    PutStatus(st, "cpu_health", verdict.status, ("cpu_percent" :> verdict.cpu_percent))
StepCpu(st, outputs) ==
    IF ~Has(st, outputs, "show processes cpu") THEN st
    ELSE CpuFields(st, CPUAnalyzer_analyze(outputs["show processes cpu"].structured,
                                           outputs["show processes cpu"].raw))

MemoryFields(st, verdict) ==
    PutStatus(st, "memory_health", verdict.status,
              ("memory_used_percent" :> verdict.memory_used_percent)
              @@ ("memory_total_mb" :> verdict.memory_total_mb)
              @@ ("memory_used_mb" :> verdict.memory_used_mb)
              @@ ("memory_free_mb" :> verdict.memory_free_mb))
StepMemory(st, outputs) ==
    IF ~Has(st, outputs, "show memory statistics") THEN st
    ELSE MemoryFields(st, MemoryAnalyzer_analyze(outputs["show memory statistics"].structured,
                                                 outputs["show memory statistics"].raw))

BgpSummaryFields(st, verdict) ==
    PutStatus(st, "bgp_health", verdict.status,
              ("bgp_total_neighbors" :> verdict.total_neighbors)
              @@ ("bgp_established_neighbors" :> verdict.established_neighbors)
              @@ ("bgp_down_neighbors" :> verdict.down_neighbors)
              @@ ("bgp_neighbors_summary" :> verdict.neighbors_summary))
StepBgpSummary(st, outputs) ==
    IF ~Has(st, outputs, "show ip bgp summary") THEN st
    ELSE BgpSummaryFields(st, BGPAnalyzer_analyze_summary(
                                  outputs["show ip bgp summary"].structured,
                                  outputs["show ip bgp summary"].raw))

\* the analyzer's exception leaves process_device
BgpNeighborsFields(st, verdict) ==
    IF verdict.exc # None THEN [st EXCEPT !.exc = verdict.exc]
    ELSE Put(st, ("bgp_neighbor_details" :> verdict.neighbor_details)
                 @@ ("bgp_high_flap_neighbors" :> verdict.high_flap_neighbors))
StepBgpNeighbors(st, outputs) ==
    IF ~Has(st, outputs, "show ip bgp neighbors") THEN st
    ELSE BgpNeighborsFields(st, BGPAnalyzer_analyze_neighbors(
                                    outputs["show ip bgp neighbors"].structured,
                                    outputs["show ip bgp neighbors"].raw))

OspfNeighborsFields(st, verdict) ==
    PutStatus(st, "ospf_health", verdict.status,
              ("ospf_total_neighbors" :> verdict.total_neighbors)
              @@ ("ospf_full_neighbors" :> verdict.full_neighbors)
              @@ ("ospf_down_neighbors" :> verdict.down_neighbors)
              @@ ("ospf_neighbors_by_area" :> verdict.neighbors_by_area)
              @@ ("ospf_low_dead_time_neighbors" :> verdict.low_dead_time_neighbors))
StepOspfNeighbors(st, outputs) ==
    IF ~Has(st, outputs, "show ip ospf neighbor") THEN st
    ELSE OspfNeighborsFields(st, OSPFAnalyzer_analyze_neighbors(
                                     outputs["show ip ospf neighbor"].structured,
                                     outputs["show ip ospf neighbor"].raw))

OspfDatabaseFields(st, verdict) ==
    Put(st, ("ospf_lsa_total" :> verdict.total_lsas)
            @@ ("ospf_lsa_by_type" :> verdict.lsa_by_type)
            @@ ("ospf_lsa_by_area" :> verdict.lsa_by_area)
            @@ ("ospf_flooding_detected" :> verdict.flooding_detected)
            @@ ("ospf_database_health" :> verdict.status))
StepOspfDatabase(st, outputs) ==
    IF ~Has(st, outputs, "show ip ospf database") THEN st
    ELSE OspfDatabaseFields(st, OSPFAnalyzer_analyze_database(
                                    outputs["show ip ospf database"].structured,
                                    outputs["show ip ospf database"].raw))

OspfInterfacesFields(st, verdict) ==
    Put(st, ("ospf_interface_count" :> verdict.total_interfaces)
            @@ ("ospf_interface_issues" :> verdict.issues))
StepOspfInterfaces(st, outputs) ==
    IF ~Has(st, outputs, "show ip ospf interface brief") THEN st
    ELSE OspfInterfacesFields(st, OSPFAnalyzer_analyze_interfaces(
                                      outputs["show ip ospf interface brief"].structured,
                                      outputs["show ip ospf interface brief"].raw))

\* lines 78-246: the k-th analysis block of process_device
AnalysisStep(k, st, outputs) ==
    CASE k = 1 -> StepInterface(st, outputs)
      [] k = 2 -> StepRouting(st, outputs)
      [] k = 3 -> StepCpu(st, outputs)
      [] k = 4 -> StepMemory(st, outputs)
      [] k = 5 -> StepBgpSummary(st, outputs)
      [] k = 6 -> StepBgpNeighbors(st, outputs)
      [] k = 7 -> StepOspfNeighbors(st, outputs)
      [] k = 8 -> StepOspfDatabase(st, outputs)
      [] OTHER -> StepOspfInterfaces(st, outputs)

AnalysisBlocks == 9

\* the first k blocks, in source order
RECURSIVE AnalyzeUpTo(_, _)
AnalyzeUpTo(k, outputs) ==
    IF k = 0
    THEN [data |-> ("reachable" :> TRUE), statuses |-> EmptyDict, exc |-> None]
    ELSE AnalysisStep(k, AnalyzeUpTo(k - 1, outputs), outputs)

AnalyzeComponents(outputs) == AnalyzeUpTo(AnalysisBlocks, outputs)

Return(v) == [kind |-> "return", value |-> v, exc |-> None]
Raise(e) == [kind |-> "raise", value |-> EmptyDict, exc |-> e]
NotDone == [kind |-> "none", value |-> EmptyDict, exc |-> None]

UnreachableRecord(error) ==
    ("reachable" :> FALSE) @@ ("overall_health" :> "UNREACHABLE") @@ ("error" :> error)

\* lines 248-254: the overall health is added and the record returned, unless
\* an analyzer's exception has left the function
Scored(device_name, st) ==
    IF st.exc # None THEN Raise(st.exc)
    ELSE Return(device_name :>
                Update(st.data, ("overall_health" :> calculate_overall_health(st.statuses))))

\* process_device(device_name, device_info, collector), with the value
\* collector.collect_from_device returned; has_proxy is "proxy_conn is not None"
process_device(device_name, has_proxy, collection_result) ==
    IF ~has_proxy
    THEN Return(device_name :> UnreachableRecord("No proxy connection configured"))
    ELSE IF ~collection_result.reachable
    THEN Return(device_name :> UnreachableRecord(collection_result.error))
    ELSE Scored(device_name, AnalyzeComponents(collection_result.outputs))

(***************************************************************************)
(* The collection results the device tasks are run on: values of the shape *)
(* collect_from_device returns, {reachable, outputs, error}.               *)
(***************************************************************************)
Text(parts) == Line({}, parts, -1)
NoData == Output(<< >>, NoList)    \* a read that timed out with nothing received

IntfUp == List(<< [interface |-> "Gi0/0", ipaddr |-> "10.0.0.1", status |-> "up",
                   protocol |-> "up"],
                  [interface |-> "Gi0/1", ipaddr |-> "unassigned",
                   status |-> "administratively down", protocol |-> "down"] >>)
IntfDown == List(<< [interface |-> "Gi0/0", ipaddr |-> "10.0.0.1", status |-> "up",
                     protocol |-> "down"] >>)
RawCpu(n) == << Text(<< "R1" >>), Line({"CPU utilization"}, << "CPU", "utilization" >>, n) >>
RawMem(used) == << Line({"Head", "Total(b)", "Used(b)"}, << "Head", "Total(b)", "Used(b)" >>, -1),
                   Text(<< "Processor", "65BD3F10", "100", used, "1" >>) >>
BgpRow(ip, col10) == Text(<< ip, "4", "65002", "5", "5", "1", "0", "0", "00:05:00", col10 >>)
OspfRow(ip, state, dead) == Text(<< ip, "1", state, dead, ip, "Gi0/0" >>)
RawNoBgp == << Text(<< "%", "BGP", "not", "active" >>) >>

BaseOutputs ==
    [c \in { CISCO_IOS_COMMANDS[i] : i \in 1..Len(CISCO_IOS_COMMANDS) } |->
        CASE c = "show ip interface brief" -> Output(<< Text(<< "Interface" >>) >>, IntfUp)
          [] c = "show ip route" -> Output(<< Text(<< "Gateway" >>) >>, List(<< EmptyDict >>))
          [] c = "show processes cpu" -> Output(RawCpu(5), NoList)
          [] c = "show memory statistics" -> Output(RawMem("79"), NoList)
          [] c = "show ip bgp summary" -> Output(RawNoBgp, NoList)
          [] c = "show ip bgp neighbors" -> Output(RawNoBgp, NoList)
          [] c = "show ip ospf database" ->
                 Output(<< Line({"Link States", "Area"}, << "Router", "0" >>, -1),
                           Text(<< "10.1.12.2", "10.1.12.2", "100" >>) >>, NoList)
          [] c = "show ip ospf neighbor" ->
                 Output(<< OspfRow("10.1.12.2", "FULL/DR", "00:00:37") >>, NoList)
          [] OTHER -> Output(<< Text(<< "Gi0/0", "0", "DR", "1" >>) >>, NoList)]

With(outputs, c, out) == [outputs EXCEPT ![c] = out]
Prefix(outputs, n) == [c \in { CISCO_IOS_COMMANDS[i] : i \in 1..n } |-> outputs[c]]

Reached(outputs, error) == [reachable |-> TRUE, outputs |-> outputs, error |-> error]
NotReached(error) == [reachable |-> FALSE, outputs |-> EmptyDict, error |-> error]

CollectionResults ==
    { \* every command answered, all components good, BGP not configured
      Reached(BaseOutputs, None),
      \* every read timed out: empty text, no structured data
      Reached([c \in DOMAIN BaseOutputs |-> NoData], None),
      \* one command timed out
      Reached(With(BaseOutputs, "show processes cpu", NoData), None),
      \* an assigned interface is down
      Reached(With(BaseOutputs, "show ip interface brief",
                   Output(<< Text(<< "Interface" >>) >>, IntfDown)), None),
      \* all OSPF neighbors FULL, one dead timer at 5 s
      Reached(With(BaseOutputs, "show ip ospf neighbor",
                   Output(<< OspfRow("10.1.12.2", "FULL/DR", "00:05:00"),
                             OspfRow("10.1.13.3", "FULL/BDR", "00:00:05") >>, NoList)), None),
      \* one BGP neighbor Idle
      Reached(With(BaseOutputs, "show ip bgp summary",
                   Output(<< BgpRow("10.0.0.2", "5"), BgpRow("10.0.0.3", "Idle") >>, NoList)),
              None),
      \* structured BGP neighbor detail whose route_flaps is a string
      Reached(With(BaseOutputs, "show ip bgp neighbors",
                   Output(RawNoBgp, List(<< [neighbor |-> "10.0.0.2",
                                             route_flaps |-> StrVal(7)] >>))), None),
      \* the channel closed while the third command was running
      Reached(Prefix(BaseOutputs, 2), "Socket is closed"),
      \* the connection failed, or no prompt came
      NotReached("timed out"),
      NotReached("No prompt detected") }

NoCollection == NotReached(None)

(***************************************************************************)
(* collectors/cisco_ios.py: the text on the channel.                       *)
(*                                                                         *)
(* Text is a sequence of pieces.  A piece is one line the device wrote in  *)
(* answer to command number k of the session (0: the login and "terminal   *)
(* length 0"): the echoed command, a body line, a body line that contains  *)
(* '#' or '>', or the prompt, which has no newline after it.  A "log"      *)
(* piece is one line the device writes unasked.  The first line of a text  *)
(* is kept as it is; after the first line a text keeps up to MaxLogRun log *)
(* lines in a row, and a run of MaxLogRun log lines there stands for that  *)
(* many or more.  So does a run of MaxLogRun log lines in the list of      *)
(* lines that is left when the first line has been dropped.  Time is       *)
(* counted in ticks of 0.1 s and passes in time.sleep only.                *)
(***************************************************************************)
Piece(k, t) == [k |-> k, t |-> t]
Echo(k) == Piece(k, "echo")
Body(k) == Piece(k, "body")
MarkedBody(k) == Piece(k, "marked")
Prompt(k) == Piece(k, "prompt")
Log(k) == Piece(k, "log")

EndsLine(piece) == piece.t # "prompt"
HasMarker(piece) == piece.t \in {"prompt", "marked"}

\* '"#" in text or ">" in text'
ContainsMarker(text) == \E n \in 1..Len(text) : HasMarker(text[n])

\* the text ends with MaxLogRun log lines that come after its first line
MaxLogRun == 2
LogRunFull(text) ==
    /\ Len(text) > MaxLogRun
    /\ \A n \in (Len(text) - MaxLogRun + 1)..Len(text) : text[n].t = "log"
    /\ \E n \in 1..(Len(text) - MaxLogRun) : EndsLine(text[n])

\* text + chunk, line by line; after the first line, a log line after
\* MaxLogRun log lines is not told apart from them
RECURSIVE Concat(_, _)
Concat(text, chunk) ==
    IF chunk = << >> THEN text
    ELSE IF Head(chunk).t = "log" /\ LogRunFull(text)
         THEN Concat(text, Tail(chunk))
         ELSE Concat(Append(text, Head(chunk)), Tail(chunk))

\* str.splitlines(): the lines of a text, each a sequence of pieces
RECURSIVE SplitFrom(_, _)
SplitFrom(text, line) ==
    IF text = << >> THEN (IF line = << >> THEN << >> ELSE << line >>)
    ELSE IF EndsLine(Head(text))
         THEN << Append(line, Head(text)) >> \o SplitFrom(Tail(text), << >>)
         ELSE SplitFrom(Tail(text), Append(line, Head(text)))
splitlines(text) == SplitFrom(text, << >>)

\* lines 96-99: the first line goes
DropEcho(lines) == IF Len(lines) > 0 THEN Tail(lines) ELSE lines
\* lines 102-105: the last line goes if it contains '#' or '>'
DropPrompt(lines) ==
    IF Len(lines) > 0 /\ ContainsMarker(lines[Len(lines)])
    THEN SubSeq(lines, 1, Len(lines) - 1)
    ELSE lines
\* lines 94-108: cleaned_output, as its list of lines
CleanOutput(text) == DropPrompt(DropEcho(splitlines(text)))

\* the pieces of a list of lines
RECURSIVE Flatten(_)
Flatten(lines) == IF lines = << >> THEN << >> ELSE Head(lines) \o Flatten(Tail(lines))

WAIT_TIMEOUT == 150
WAIT_SLEEP == 3
READ_DELAY == 5
READ_SLEEP_DATA == 1
READ_SLEEP_IDLE == 2
max_attempts == 10

\* line 162: timeout = 8 if "bgp" in cmd.lower() else 6
IsBgpCommand(cmd) == cmd \in {"show ip bgp summary", "show ip bgp neighbors"}
ReadTimeout(cmd) == IF IsBgpCommand(cmd) THEN 80 ELSE 60

\* time.sleep(d) as seen by "time.time() - start_time < limit"
Later(t, d, limit) == IF t + d >= limit THEN limit ELSE t + d

\* lines 166-172: structured stays None for empty text; otherwise parse_output
\* returns its records, or raises and structured stays None
\* (the first: parse_output called without the "if raw_output" guard)
UnguardedStructured(raw_output, parsed) == IF parsed THEN "records" ELSE None
Structured(raw_output, parsed) ==
    IF raw_output # << >> /\ parsed THEN "records" ELSE None

\* line 154: the command the loop body runs in its n-th round
\* (the first: a loop that runs cmds[0] in every round)
FirstCommand(cmds, n) == cmds[1]
CommandAt(cmds, n) == cmds[n]

(***************************************************************************)
(* collectors/cisco_ios.py: collect_from_device(), with the device at the  *)
(* other end of the channel.  The answers to the blank lines that          *)
(* _wait_for_prompt sends are not modelled.                                *)
(***************************************************************************)
NumCmds == 2
CommandLists == { SubSeq(CISCO_IOS_COMMANDS, 1, NumCmds),
                  SubSeq(CISCO_IOS_COMMANDS, 5, 4 + NumCmds) }

SocketClosed == "Socket is closed"

\* what the console shows after the proxy command: its prompt, or nothing
LoginAnswers == { << Prompt(0) >>, << >> }

\* how the device answers command number k: in full; not at all; without a
\* prompt; with a '#' in the body; in full, and it starts logging to the console
Answers == {"full", "nothing", "no_prompt", "marked", "logging"}
Answer(a, k) ==
    CASE a = "full" -> << Echo(k), Body(k), Prompt(k) >>
      [] a = "nothing" -> << >>
      [] a = "no_prompt" -> << Echo(k), Body(k) >>
      [] a = "marked" -> << Echo(k), MarkedBody(k), Body(k), Prompt(k) >>
      [] a = "logging" -> << Echo(k), Body(k), Prompt(k), Log(0) >>

\* the device's text to send, with its log lines queued once
IsNew(p, piece) == piece.t # "log" \/ \A n \in 1..Len(p) : p[n] # piece
RECURSIVE Queue(_, _)
Queue(p, text) ==
    IF text = << >> THEN p
    ELSE Queue(IF IsNew(p, Head(text)) THEN Append(p, Head(text)) ELSE p, Tail(text))

SessVars == << pc, commands, cmd_index, alive, pending, rx, buffer, output, elapsed,
               attempts, result, ssh, channel, sent >>
OrchVars == << mainPc, hasProxy, submitted, task, cres, fut, yielded, cur,
               summary_lock, device_summary, writeLog >>
ScorerVars == << sc_in, sc_out >>
AnalyzerVars == << an_fn, an_in, an_out, an_done >>

\* the call of an analyzer before it returns
AnStart(fn, input) ==
    /\ an_fn = fn
    /\ an_in = input
    /\ an_out = EmptyDict
    /\ an_done = FALSE

\* the session's variables on entry to collect_from_device (lines 121-125)
SessStart(cmds) ==
    /\ pc = "connect"
    /\ commands = cmds
    /\ cmd_index = 0
    /\ alive = FALSE
    /\ pending = << >>
    /\ rx = << >>
    /\ buffer = << >>
    /\ output = << >>
    /\ elapsed = 0
    /\ attempts = 0
    /\ result = [reachable |-> FALSE, outputs |-> EmptyDict, error |-> None]
    /\ ssh = "none"
    /\ channel = "none"
    /\ sent = << >>

\* A wrong handler: the outputs collected before the exception are dropped.
RaisedDropsOutputs(e) ==
    /\ result' = [result EXCEPT !.error = e, !.outputs = EmptyDict]
    /\ pc' = "done"

\* lines 185-188: the exception is caught, its text recorded, the result returned
Raised(e) ==
    /\ result' = [result EXCEPT !.error = e]
    /\ pc' = "done"

\* lines 128-131: ssh.connect returns, or raises
Connect ==
    /\ pc = "connect"
    /\ \E ok \in BOOLEAN :
          IF ok THEN ssh' = "open" /\ pc' = "invoke_shell" /\ UNCHANGED result
          ELSE UNCHANGED ssh /\ Raised("timed out")
    /\ UNCHANGED << commands, cmd_index, alive, pending, rx, buffer, output, elapsed,
                    attempts, channel, sent >>
    /\ UNCHANGED << ScorerVars, AnalyzerVars, OrchVars >>

\* lines 133-134: ssh.invoke_shell returns the channel, or raises
InvokeShell ==
    /\ pc = "invoke_shell"
    /\ \E ok \in BOOLEAN :
          IF ok THEN channel' = "open" /\ alive' = TRUE /\ pc' = "send_proxy" /\ UNCHANGED result
          ELSE UNCHANGED << channel, alive >> /\ Raised("Unable to open channel.")
    /\ UNCHANGED << commands, cmd_index, pending, rx, buffer, output, elapsed, attempts,
                    ssh, sent >>
    /\ UNCHANGED << ScorerVars, AnalyzerVars, OrchVars >>

\* lines 137-139: the proxy command is sent; the console answers with its
\* prompt or stays silent; _wait_for_prompt starts
SendProxy ==
    /\ pc = "send_proxy"
    /\ IF alive
       THEN /\ sent' = Append(sent, "proxy")
            /\ \E login \in LoginAnswers : pending' = login
            /\ buffer' = << >>
            /\ elapsed' = 0
            /\ pc' = "wait_for_prompt"
            /\ UNCHANGED result
       ELSE UNCHANGED << sent, pending, buffer, elapsed >> /\ Raised(SocketClosed)
    /\ UNCHANGED << commands, cmd_index, alive, rx, output, attempts, ssh, channel >>
    /\ UNCHANGED << ScorerVars, AnalyzerVars, OrchVars >>

\* lines 32-37: one round of the loop of _wait_for_prompt, up to its sleep:
\* what has arrived is read, and the buffer returned if it holds '#' or '>'
WaitPoll ==
    /\ pc = "wait_for_prompt"
    /\ elapsed < WAIT_TIMEOUT
    /\ buffer' = Concat(buffer, rx)
    /\ rx' = << >>
    /\ pc' = IF rx # << >> /\ ContainsMarker(Concat(buffer, rx))
             THEN "check_prompt" ELSE "wait_send"
    /\ UNCHANGED << commands, cmd_index, alive, pending, output, elapsed, attempts, result,
                    ssh, channel, sent >>
    /\ UNCHANGED << ScorerVars, AnalyzerVars, OrchVars >>

\* lines 38-39: the sleep is over and the blank line is sent, or the send
\* raises on a closed channel
WaitSend ==
    /\ pc = "wait_send"
    /\ elapsed' = Later(elapsed, WAIT_SLEEP, WAIT_TIMEOUT)
    /\ IF alive THEN pc' = "wait_for_prompt" /\ UNCHANGED result
       ELSE Raised(SocketClosed)
    /\ UNCHANGED << commands, cmd_index, alive, pending, rx, buffer, output, attempts, ssh,
                    channel, sent >>
    /\ UNCHANGED << ScorerVars, AnalyzerVars, OrchVars >>

\* line 40: the time is up, the buffer is returned as it is
WaitTimeout ==
    /\ pc = "wait_for_prompt"
    /\ elapsed >= WAIT_TIMEOUT
    /\ pc' = "check_prompt"
    /\ UNCHANGED << commands, cmd_index, alive, pending, rx, buffer, output, elapsed,
                    attempts, result, ssh, channel, sent >>
    /\ UNCHANGED << ScorerVars, AnalyzerVars, OrchVars >>

\* lines 140-146: without a prompt the session is given up
CheckPrompt ==
    /\ pc = "check_prompt"
    /\ IF ~ContainsMarker(buffer)
       THEN /\ result' = [result EXCEPT !.error = "No prompt detected"]
            /\ channel' = "closed"
            /\ ssh' = "closed"
            /\ rx' = << >>
            /\ pending' = << >>
            /\ pc' = "done"
       ELSE /\ result' = [result EXCEPT !.reachable = TRUE]
            /\ pc' = "disable_paging"
            /\ UNCHANGED << channel, ssh, rx, pending >>
    /\ buffer' = << >>
    /\ elapsed' = 0
    /\ UNCHANGED << commands, cmd_index, alive, output, attempts, sent >>
    /\ UNCHANGED << ScorerVars, AnalyzerVars, OrchVars >>

\* lines 149-151: terminal length 0, then the first drain starts
DisablePaging ==
    /\ pc = "disable_paging"
    /\ IF alive
       THEN /\ sent' = Append(sent, "terminal length 0")
            /\ pending' = Queue(pending, << Echo(0), Prompt(0) >>)
            /\ attempts' = 0
            /\ pc' = "clear_buffer"
            /\ UNCHANGED result
       ELSE UNCHANGED << sent, pending, attempts >> /\ Raised(SocketClosed)
    /\ UNCHANGED << commands, cmd_index, alive, rx, buffer, output, elapsed, ssh, channel >>
    /\ UNCHANGED << ScorerVars, AnalyzerVars, OrchVars >>

\* lines 47-50 and 52-54: one round of the loop of _clear_buffer, up to its
\* sleep: what has arrived is read and thrown away, or the idle poll counted
ClearPoll ==
    /\ pc \in {"clear_buffer", "clear"}
    /\ attempts < max_attempts
    /\ IF rx # << >>
       THEN /\ rx' = << >>
            /\ pc' = IF pc = "clear_buffer" THEN "clear_buffer_reset" ELSE "clear_reset"
            /\ UNCHANGED attempts
       ELSE /\ attempts' = attempts + 1
            /\ UNCHANGED << rx, pc >>
    /\ UNCHANGED << commands, cmd_index, alive, pending, buffer, output, elapsed,
                    result, ssh, channel, sent >>
    /\ UNCHANGED << ScorerVars, AnalyzerVars, OrchVars >>

\* line 51: the sleep after a read is over, the count starts again
ClearReset ==
    /\ pc \in {"clear_buffer_reset", "clear_reset"}
    /\ attempts' = 0
    /\ pc' = IF pc = "clear_buffer_reset" THEN "clear_buffer" ELSE "clear"
    /\ UNCHANGED << commands, cmd_index, alive, pending, rx, buffer, output, elapsed,
                    result, ssh, channel, sent >>
    /\ UNCHANGED << ScorerVars, AnalyzerVars, OrchVars >>

\* line 47: attempts has reached max_attempts, _clear_buffer returns
ClearReturn ==
    /\ pc \in {"clear_buffer", "clear"}
    /\ attempts >= max_attempts
    /\ attempts' = 0
    /\ pc' = IF pc = "clear_buffer" THEN "for" ELSE "send"
    /\ UNCHANGED << commands, cmd_index, alive, pending, rx, buffer, output, elapsed,
                    result, ssh, channel, sent >>
    /\ UNCHANGED << ScorerVars, AnalyzerVars, OrchVars >>

\* lines 154-156: the next command of the list, or the end of the loop
ForNext ==
    /\ pc = "for"
    /\ IF cmd_index < Len(commands)
       THEN cmd_index' = cmd_index + 1 /\ pc' = "clear"
       ELSE UNCHANGED cmd_index /\ pc' = "exit"
    /\ UNCHANGED << commands, alive, pending, rx, buffer, output, elapsed, attempts,
                    result, ssh, channel, sent >>
    /\ UNCHANGED << ScorerVars, AnalyzerVars, OrchVars >>

\* line 159: the command is sent; the device will answer it in one of the
\* ways of Answers
SendCommand ==
    /\ pc = "send"
    /\ IF alive
       THEN /\ sent' = Append(sent, CommandAt(commands, cmd_index))
            /\ \E a \in Answers : pending' = Queue(pending, Answer(a, cmd_index))
            /\ pc' = "read_start"
            /\ UNCHANGED result
       ELSE UNCHANGED << sent, pending >> /\ Raised(SocketClosed)
    /\ UNCHANGED << commands, cmd_index, alive, rx, buffer, output, elapsed, attempts,
                    ssh, channel >>
    /\ UNCHANGED << ScorerVars, AnalyzerVars, OrchVars >>

\* lines 67-72: _robust_read_until_prompt starts with its initial delay
ReadStart ==
    /\ pc = "read_start"
    /\ output' = << >>
    /\ elapsed' = READ_DELAY
    /\ pc' = "read"
    /\ UNCHANGED << commands, cmd_index, alive, pending, rx, buffer, attempts, result,
                    ssh, channel, sent >>
    /\ UNCHANGED << ScorerVars, AnalyzerVars, OrchVars >>

\* lines 74-92: one round of the outer loop; after a chunk with '#' or '>' the
\* time is not looked at again
ReadPoll ==
    /\ pc = "read"
    /\ elapsed < ReadTimeout(CommandAt(commands, cmd_index))
    /\ IF rx # << >>
       THEN /\ output' = Concat(output, rx)
            /\ rx' = << >>
            /\ IF ContainsMarker(rx)
               THEN /\ elapsed' = 0
                    /\ pc' = "trail"
               ELSE /\ elapsed' = Later(elapsed, READ_SLEEP_DATA,
                                        ReadTimeout(CommandAt(commands, cmd_index)))
                    /\ UNCHANGED pc
       ELSE /\ elapsed' = Later(elapsed, READ_SLEEP_IDLE,
                                ReadTimeout(CommandAt(commands, cmd_index)))
            /\ UNCHANGED << output, rx, pc >>
    /\ UNCHANGED << commands, cmd_index, alive, pending, buffer, attempts, result, ssh,
                    channel, sent >>
    /\ UNCHANGED << ScorerVars, AnalyzerVars, OrchVars >>

\* line 74: the time is up, the outer loop ends
ReadTimedOut ==
    /\ pc = "read"
    /\ elapsed >= ReadTimeout(CommandAt(commands, cmd_index))
    /\ elapsed' = 0
    /\ pc' = "store"
    /\ UNCHANGED << commands, cmd_index, alive, pending, rx, buffer, output, attempts,
                    result, ssh, channel, sent >>
    /\ UNCHANGED << ScorerVars, AnalyzerVars, OrchVars >>

\* lines 85-87: the channel is ready, the inner loop reads once more
TrailRecv ==
    /\ pc = "trail"
    /\ rx # << >>
    /\ output' = Concat(output, rx)
    /\ rx' = << >>
    /\ UNCHANGED << pc, commands, cmd_index, alive, pending, buffer, elapsed, attempts,
                    result, ssh, channel, sent >>
    /\ UNCHANGED << ScorerVars, AnalyzerVars, OrchVars >>

\* lines 85 and 88: the channel is not ready, the inner loop and the
\* outer loop end
TrailDone ==
    /\ pc = "trail"
    /\ rx = << >>
    /\ pc' = "store"
    /\ UNCHANGED << commands, cmd_index, alive, pending, rx, buffer, output, elapsed,
                    attempts, result, ssh, channel, sent >>
    /\ UNCHANGED << ScorerVars, AnalyzerVars, OrchVars >>

\* lines 94-108 and 166-177: the text is cleaned and returned, parsed if
\* it is not empty, and stored under the command
Store ==
    /\ pc = "store"
    /\ \E parsed \in BOOLEAN :
          result' = [result EXCEPT !.outputs =
                        Update(@, (CommandAt(commands, cmd_index) :>
                                   [raw |-> CleanOutput(output),
                                    structured |-> Structured(CleanOutput(output), parsed)]))]
    /\ output' = << >>
    /\ elapsed' = 0
    /\ pc' = "for"
    /\ UNCHANGED << commands, cmd_index, alive, pending, rx, buffer, attempts, ssh,
                    channel, sent >>
    /\ UNCHANGED << ScorerVars, AnalyzerVars, OrchVars >>

\* lines 180-181: the graceful exit
Exit ==
    /\ pc = "exit"
    /\ IF alive
       THEN sent' = Append(sent, "exit") /\ pc' = "close" /\ UNCHANGED result
       ELSE UNCHANGED sent /\ Raised(SocketClosed)
    /\ UNCHANGED << commands, cmd_index, alive, pending, rx, buffer, output, elapsed,
                    attempts, ssh, channel >>
    /\ UNCHANGED << ScorerVars, AnalyzerVars, OrchVars >>

\* lines 182-183 and 188: channel and client are closed, the result returned
Close ==
    /\ pc = "close"
    /\ channel' = "closed"
    /\ ssh' = "closed"
    /\ rx' = << >>
    /\ pending' = << >>
    /\ pc' = "done"
    /\ UNCHANGED << commands, cmd_index, alive, buffer, output, elapsed, attempts, result,
                    sent >>
    /\ UNCHANGED << ScorerVars, AnalyzerVars, OrchVars >>

\* the device: the next piece of its text reaches the channel; log lines
\* keep coming
DeviceEmit ==
    /\ alive
    /\ pc # "done"
    /\ pending # << >>
    /\ rx' = Concat(rx, << Head(pending) >>)
    /\ pending' = IF Head(pending).t = "log" THEN Append(Tail(pending), Head(pending))
                  ELSE Tail(pending)
    /\ UNCHANGED << pc, commands, cmd_index, alive, buffer, output, elapsed, attempts,
                    result, ssh, channel, sent >>
    /\ UNCHANGED << ScorerVars, AnalyzerVars, OrchVars >>

\* the device or the terminal server closes the channel; the task notices
\* at its next send, and the step is taken there
DeviceDrop ==
    /\ alive
    /\ pc \in {"send_proxy", "wait_for_prompt", "wait_send", "disable_paging", "send", "exit"}
    /\ alive' = FALSE
    /\ pending' = << >>
    /\ UNCHANGED << pc, commands, cmd_index, rx, buffer, output, elapsed, attempts,
                    result, ssh, channel, sent >>
    /\ UNCHANGED << ScorerVars, AnalyzerVars, OrchVars >>

\* the steps of the task that runs the session
SessionStep ==
    \/ Connect
    \/ InvokeShell
    \/ SendProxy
    \/ WaitPoll
    \/ WaitSend
    \/ WaitTimeout
    \/ CheckPrompt
    \/ DisablePaging
    \/ ClearPoll
    \/ ClearReset
    \/ ClearReturn
    \/ ForNext
    \/ SendCommand
    \/ ReadStart
    \/ ReadPoll
    \/ ReadTimedOut
    \/ TrailRecv
    \/ TrailDone
    \/ Store
    \/ Exit
    \/ Close

(***************************************************************************)
(* main.py: main()                                                         *)
(***************************************************************************)
NumDevices == 2
Devices == 1..NumDevices
max_workers == 5
Main == "main"

\* the tasks that hold a pool worker; a task stuck in its session keeps its worker
Running == { d \in Devices : task[d] \in {"started", "collected", "hung"} }

\* "with summary_lock": the owner after a successful acquire
Acquired(lock, t) == t

ErrorRecord(exc) ==
    ("reachable" :> FALSE) @@ ("overall_health" :> "ERROR") @@ ("error" :> exc)

\* process_device on every device and collection result, evaluated once
ProcessDevice ==
    [d \in Devices |->
        [has_proxy \in BOOLEAN |->
            [r \in CollectionResults \cup {NoCollection} |-> process_device(d, has_proxy, r)]]]

\* the orchestrator's variables before main() starts
OrchStart(proxy) ==
    /\ mainPc = "find_lab"
    /\ hasProxy = proxy
    /\ submitted = 0
    /\ task = [d \in Devices |-> "new"]
    /\ cres = [d \in Devices |-> NoCollection]
    /\ fut = [d \in Devices |-> NotDone]
    /\ yielded = {}
    /\ cur = 0
    /\ summary_lock = Free
    /\ device_summary = EmptyDict
    /\ writeLog = {}

\* lines 384-392: the lab is looked up and its testbed loaded
MainFindLab ==
    /\ mainPc = "find_lab"
    /\ \E found \in BOOLEAN : mainPc' = IF found THEN "probe" ELSE "no_lab"
    /\ UNCHANGED << hasProxy, submitted, task, cres, fut, yielded, cur,
                    summary_lock, device_summary, writeLog >>
    /\ UNCHANGED << ScorerVars, AnalyzerVars, SessVars >>

\* lines 395-403: the TCP probe of the terminal server
MainProbe ==
    /\ mainPc = "probe"
    /\ \E reachable \in BOOLEAN : mainPc' = IF reachable THEN "submit" ELSE "ts_unreachable"
    /\ UNCHANGED << hasProxy, submitted, task, cres, fut, yielded, cur,
                    summary_lock, device_summary, writeLog >>
    /\ UNCHANGED << ScorerVars, AnalyzerVars, SessVars >>

\* lines 415-418: one executor.submit per device, in testbed order
MainSubmit ==
    /\ mainPc = "submit"
    /\ submitted' = submitted + 1
    /\ task' = [task EXCEPT ![submitted + 1] = "queued"]
    /\ mainPc' = IF submitted + 1 = NumDevices THEN "as_completed" ELSE "submit"
    /\ UNCHANGED << hasProxy, cres, fut, yielded, cur, summary_lock, device_summary, writeLog >>
    /\ UNCHANGED << ScorerVars, AnalyzerVars, SessVars >>

\* a pool worker takes the oldest queued task
TaskStart(d) ==
    /\ task[d] = "queued"
    /\ \A e \in Devices : task[e] = "queued" => d <= e
    /\ Cardinality(Running) < max_workers
    /\ task' = [task EXCEPT ![d] = "started"]
    /\ UNCHANGED << mainPc, hasProxy, submitted, cres, fut, yielded, cur,
                    summary_lock, device_summary, writeLog >>
    /\ UNCHANGED << ScorerVars, AnalyzerVars, SessVars >>

\* lines 42-54: no proxy connection, the task returns at once
TaskNoProxy(d) ==
    /\ task[d] = "started"
    /\ ~hasProxy[d]
    /\ fut' = [fut EXCEPT ![d] = ProcessDevice[d][FALSE][NoCollection]]
    /\ task' = [task EXCEPT ![d] = "finished"]
    /\ UNCHANGED << mainPc, hasProxy, submitted, cres, yielded, cur,
                    summary_lock, device_summary, writeLog >>
    /\ UNCHANGED << ScorerVars, AnalyzerVars, SessVars >>

\* lines 57-61: the session runs and returns its collection result
TaskCollect(d) ==
    /\ task[d] = "started"
    /\ hasProxy[d]
    /\ \E r \in CollectionResults : cres' = [cres EXCEPT ![d] = r]
    /\ task' = [task EXCEPT ![d] = "collected"]
    /\ UNCHANGED << mainPc, hasProxy, submitted, fut, yielded, cur,
                    summary_lock, device_summary, writeLog >>
    /\ UNCHANGED << ScorerVars, AnalyzerVars, SessVars >>

\* lines 57-61: the session never returns (a read that does not end, a connect
\* that blocks): the task stays in collect_from_device for ever
TaskHang(d) ==
    /\ task[d] = "started"
    /\ hasProxy[d]
    /\ task' = [task EXCEPT ![d] = "hung"]
    /\ UNCHANGED << mainPc, hasProxy, submitted, cres, fut, yielded, cur,
                    summary_lock, device_summary, writeLog >>
    /\ UNCHANGED << ScorerVars, AnalyzerVars, SessVars >>

\* lines 63-254: analysis and scoring; the future gets the value or the exception
TaskFinish(d) ==
    /\ task[d] = "collected"
    /\ fut' = [fut EXCEPT ![d] = ProcessDevice[d][TRUE][cres[d]]]
    /\ task' = [task EXCEPT ![d] = "finished"]
    /\ UNCHANGED << mainPc, hasProxy, submitted, cres, yielded, cur,
                    summary_lock, device_summary, writeLog >>
    /\ UNCHANGED << ScorerVars, AnalyzerVars, SessVars >>

\* line 420: the futures as_completed can yield next: any finished one
\* (the first: the futures waited for in submission order)
YieldsInSubmissionOrder(d) == task[d] = "finished" /\ \A e \in Devices \ yielded : d <= e
Yields(d) == task[d] = "finished"

\* line 420: as_completed yields a finished future not yet yielded
MainNextFuture ==
    /\ mainPc = "as_completed"
    /\ \E d \in Devices \ yielded :
          /\ Yields(d)
          /\ cur' = d
          /\ yielded' = yielded \cup {d}
    /\ mainPc' = "result"
    /\ UNCHANGED << hasProxy, submitted, task, cres, fut, summary_lock, device_summary, writeLog >>
    /\ UNCHANGED << ScorerVars, AnalyzerVars, SessVars >>

\* lines 422-428: future.result() returns or raises, then the lock is taken
MainAcquire ==
    /\ mainPc = "result"
    /\ summary_lock = Free
    /\ summary_lock' = Acquired(summary_lock, Main)
    /\ mainPc' = IF fut[cur].kind = "return" THEN "update" ELSE "set_error"
    /\ UNCHANGED << hasProxy, submitted, task, cres, fut, yielded, cur, device_summary, writeLog >>
    /\ UNCHANGED << ScorerVars, AnalyzerVars, SessVars >>

\* line 425: device_summary.update(result)
MainUpdate ==
    /\ mainPc = "update"
    /\ device_summary' = Update(device_summary, fut[cur].value)
    /\ writeLog' = writeLog \cup {[by |-> Main, lock |-> summary_lock, device |-> cur]}
    /\ mainPc' = "release"
    /\ UNCHANGED << hasProxy, submitted, task, cres, fut, yielded, cur, summary_lock >>
    /\ UNCHANGED << ScorerVars, AnalyzerVars, SessVars >>

\* lines 429-433: the entry written for a task that raised
MainSetError ==
    /\ mainPc = "set_error"
    /\ device_summary' = Update(device_summary, (cur :> ErrorRecord(fut[cur].exc)))
    /\ writeLog' = writeLog \cup {[by |-> Main, lock |-> summary_lock, device |-> cur]}
    /\ mainPc' = "release"
    /\ UNCHANGED << hasProxy, submitted, task, cres, fut, yielded, cur, summary_lock >>
    /\ UNCHANGED << ScorerVars, AnalyzerVars, SessVars >>

\* the end of the with block
MainRelease ==
    /\ mainPc = "release"
    /\ summary_lock' = Free
    /\ cur' = 0
    /\ mainPc' = "as_completed"
    /\ UNCHANGED << hasProxy, submitted, task, cres, fut, yielded, device_summary, writeLog >>
    /\ UNCHANGED << ScorerVars, AnalyzerVars, SessVars >>

\* every future was yielded: the executor shuts down and collection is over
MainCollected ==
    /\ mainPc = "as_completed"
    /\ yielded = Devices
    /\ mainPc' = "collected"
    /\ UNCHANGED << hasProxy, submitted, task, cres, fut, yielded, cur,
                    summary_lock, device_summary, writeLog >>
    /\ UNCHANGED << ScorerVars, AnalyzerVars, SessVars >>

\* generate_ai_explanations(device_summaries), main.py 257-371.  The text of an
\* explanation is not modelled.  gemini: the Gemini explainer is in use
\* (USE_GEMINI is set and its construction succeeded), else the rule-based one;
\* failed: the devices for which the Gemini call raised and the rule-based
\* explainer stepped in; net_failed: the same for the network-wide analysis.
network_analysis == 0
GeminiType == "Google Gemini (gemini-pro)"
ManualType == "Manual (Rule-Based)"
FallbackType == "Manual (Fallback)"
ExplainerType(gemini) == IF gemini THEN GeminiType ELSE ManualType

\* lines 289-298: the entries that get an explanation
Explainable(device_summaries) ==
    { d \in DOMAIN device_summaries \ {network_analysis} :
        Get(device_summaries[d], "reachable", FALSE) = TRUE }

\* lines 302-325: the two keys written into a device's entry
Explained(device_data, explanation_type) ==
    Update(device_data, ("ai_explanation" :> "explanation")
                        @@ ("explanation_type" :> explanation_type))

\* lines 340-364: the value stored under 'network_analysis'
NetworkAnalysis(explanation_type) ==
    ("timestamp" :> "now") @@ ("analysis" :> "explanation")
    @@ ("explainer_type" :> explanation_type)

generate_ai_explanations(device_summaries, gemini, failed, net_failed) ==
    Update([d \in DOMAIN device_summaries |->
               IF d \in Explainable(device_summaries)
               THEN Explained(device_summaries[d],
                              IF d \in failed THEN FallbackType ELSE ExplainerType(gemini))
               ELSE device_summaries[d]],
           (network_analysis :>
               NetworkAnalysis(IF net_failed THEN FallbackType ELSE ExplainerType(gemini))))

\* lines 439-442 with ENABLE_AI set: the explanations are written into the
\* report by the main thread, after the pool has shut down, without the lock
MainExplain ==
    /\ mainPc = "collected"
    /\ \E gemini \in BOOLEAN : \E failed \in SUBSET Explainable(device_summary) :
          \E net_failed \in BOOLEAN :
             /\ ~gemini => (failed = {} /\ ~net_failed)
             /\ device_summary' =
                    generate_ai_explanations(device_summary, gemini, failed, net_failed)
    /\ writeLog' = writeLog \cup
                      { [by |-> Main, lock |-> summary_lock, device |-> k] :
                          k \in Explainable(device_summary) \cup {network_analysis} }
    /\ mainPc' = "save"
    /\ UNCHANGED << hasProxy, submitted, task, cres, fut, yielded, cur, summary_lock >>
    /\ UNCHANGED << ScorerVars, AnalyzerVars, SessVars >>

\* lines 443-444 with ENABLE_AI not set: the report is saved as it is
MainNoExplain ==
    /\ mainPc = "collected"
    /\ mainPc' = "save"
    /\ UNCHANGED << hasProxy, submitted, task, cres, fut, yielded, cur,
                    summary_lock, device_summary, writeLog >>
    /\ UNCHANGED << ScorerVars, AnalyzerVars, SessVars >>

(***************************************************************************)
(* The scorer alone, on every component_statuses mapping.                  *)
(***************************************************************************)
Score ==
    /\ sc_out = None
    /\ sc_out' = calculate_overall_health(AsDict(sc_in))
    /\ UNCHANGED sc_in
    /\ UNCHANGED << AnalyzerVars, OrchVars, SessVars >>

(***************************************************************************)
(* One analyzer alone, on every input of a bounded set.                    *)
(***************************************************************************)
\* a command that produced nothing: parse_output gave None, or an empty list
EmptyOutputs == {NoData, Output(<< >>, List(<< >>))}

\* 'show ip interface brief' records: up to MaxIntfs interfaces, each with every
\* combination of address, link status and protocol status
MaxIntfs == 2
IntfNames == << "Gi0/0", "Gi0/1", "Gi0/2", "Gi0/3" >>
IntfChoices ==
    [ipaddr   : {"10.0.0.1", "unassigned", "Unassigned", "", Absent},
     status   : {"up", "Up", "down", "administratively down"},
     protocol : {"up", "down"}]
IntfEntry(i, c) ==
    AsDict([interface |-> IntfNames[i], ipaddr |-> c.ipaddr,
            status |-> c.status, protocol |-> c.protocol])
IntfList(n, f) == [i \in 1..n |-> IntfEntry(i, f[i])]

\* raw text of up to MaxLines lines
MaxLines == 2

\* 'show processes cpu': a line without the label, or a "CPU utilization" line
\* whose value does not parse (-1) or parses to a number around the threshold;
\* structured data with or without the cpu_utilization key
CpuLines ==
    {Text(<< "R1" >>)}
        \cup { Line({"CPU utilization"}, << "CPU", "utilization" >>, n) : n \in {-1, 5, 69, 70} }
CpuStructured ==
    {NoList, List(<< >>), List(<< [cpu_5_sec |-> "80"] >>)}
        \cup { List(<< [cpu_utilization |-> v] >>) : v \in {"5", "80", "n/a"} }

\* 'show memory statistics': the header row, Processor rows with every
\* total and used of MemTotals and MemUseds, a row cut short, the free-text
\* layout with and without the pool name, and a line of neither layout;
\* structured data with one pool
MemTotals == {"0", "100"}
MemUseds == {"29", "79", "80"}
MemHeader == Line({"Head", "Total(b)", "Used(b)"}, << "Head", "Total(b)", "Used(b)", "Free(b)" >>, -1)
MemProcessorRow(total, used) ==
    Line({"Processor"}, << "Processor", "65BD3F10", total, used, "5" >>, -1)
MemFreeText(total, used) ==
    Line({"Total:", "Used:", "Free:"}, << "Total:", total, "Used:", used, "Free:", "5" >>, -1)
MemPoolText(total, used) ==
    Line({"Processor", "Pool", "Total:", "Used:", "Free:"},
         << "Processor", "Pool", "Total:", total, "Used:", used, "Free:", "5" >>, -1)
MemLines ==
    {MemHeader, Line({"Processor"}, << "Processor", "65BD3F10" >>, -1), Text(<< "R1" >>),
     MemFreeText("100", "80"), MemPoolText("100", "80")}
        \cup { MemProcessorRow(t, u) : t \in MemTotals, u \in MemUseds }
MemStructuredInputs ==
    {NoList, List(<< >>)}
        \cup { List(<< [pool |-> p, total |-> t, used |-> u, free |-> "5"] >>) :
                  p \in {"Processor", "I/O"}, t \in MemTotals, u \in MemUseds \cup {"n/a"} }

\* structured lists of up to MaxNeighbors neighbor records
MaxNeighbors == 2
NeighborIPs == << "10.0.0.2", "10.0.0.3", "10.1.12.2", "10.1.13.3" >>

\* 'show ip bgp summary': per line a neighbor row whose column 10 is a prefix
\* count or a state, a row cut short, or a line that is no row; structured
\* records with and without the state and state_pfxrcd keys
BgpLineKinds == {"5", "Idle", "Active", "short", "header"}
BgpSummaryLine(i, kind) ==
    CASE kind = "short" -> Text(<< NeighborIPs[i], "4", "65002" >>)
      [] kind = "header" -> Text(<< "Neighbor", "V", "AS", "MsgRcvd", "MsgSent", "TblVer",
                                   "InQ", "OutQ", "Up/Down", "State/PfxRcd" >>)
      [] OTHER -> BgpRow(NeighborIPs[i], kind)
BgpSummaryRaw(n, f) == [i \in 1..n |-> BgpSummaryLine(i, f[i])]
BgpChoices == [state : {Absent, "Established", "Idle"}, state_pfxrcd : {Absent, "5", "Idle"}]
BgpEntry(i, c) ==
    AsDict([neighbor |-> NeighborIPs[i], as |-> "65002",
            state |-> c.state, state_pfxrcd |-> c.state_pfxrcd])
BgpList(n, f) == [i \in 1..n |-> BgpEntry(i, f[i])]

\* 'show ip ospf neighbor': per line a neighbor row with a state and a dead
\* time, a row cut short, or a line that is no row; structured records with
\* states in either letter case, dead times around the threshold or
\* unreadable, with and without an area
OspfLineKinds ==
    {[state |-> "short", dead |-> "-"], [state |-> "header", dead |-> "-"]}
        \cup [state : {"FULL/DR", "2WAY/DROTHER"}, dead : {"00:05:00", "00:00:10", "00:00:11"}]
OspfNeighborLine(i, kind) ==
    CASE kind.state = "short" -> Text(<< NeighborIPs[i], "1", "FULL/DR" >>)
      [] kind.state = "header" -> Text(<< "Neighbor", "ID", "Pri", "State", "Dead", "Time",
                                         "Address", "Interface" >>)
      [] OTHER -> OspfRow(NeighborIPs[i], kind.state, kind.dead)
OspfNeighborRaw(n, f) == [i \in 1..n |-> OspfNeighborLine(i, f[i])]
OspfChoices ==
    [state     : {"FULL/DR", "full/dr", "2WAY/DROTHER"},
     dead_time : {"00:05:00", "00:00:11", "00:00:10", "00:00:05", "-"},
     area      : {Absent, "0.0.0.1"}]
OspfEntry(i, c) ==
    AsDict([neighbor_id |-> NeighborIPs[i], interface |-> "Gi0/0", state |-> c.state,
            dead_time |-> c.dead_time, area |-> c.area])
OspfList(n, f) == [i \in 1..n |-> OspfEntry(i, f[i])]

\* 'show ip ospf interface brief': structured records with the state in
\* either letter case, empty or absent, and rows of the text, one of them cut
\* short
OspfIntfStates == {"DR", "DOWN", "down", "Down", "WAITING", "waiting", "", Absent}
OspfIntfEntry(i, state) ==
    AsDict([interface |-> IntfNames[i], area |-> "0.0.0.1", state |-> state])
OspfIntfList(n, f) == [i \in 1..n |-> OspfIntfEntry(i, f[i])]
OspfIntfLines ==
    { Text(<< "Gi0/1", "0.0.0.1", state, "10.1.12.1/24" >>) : state \in {"DR", "DOWN", "down"} }
        \cup {Text(<< "Gi0/1", "0.0.0.1", "DOWN" >>),
              Text(<< "Interface", "Area", "State", "IP" >>)}

\* 'show ip ospf database' of up to MaxLsaLines lines: headers of two types
\* and areas, a "Link States" line without an area, an entry line, a run of
\* OSPF_LSA_FLOOD_THRESHOLD entry lines, an IPv4 line with fewer than 3
\* fields, and a line of no kind
MaxLsaLines == 4
LsaEntryLine == Text(<< "10.0.0.2", "10.0.0.2", "123", "0x80000003", "0x00A1B2", "3" >>)
LsaLines ==
    {Line({"Link States", "Area"}, << "Router", "0" >>, -1),
     Line({"Link States", "Area"}, << "Summary Net", "1" >>, -1),
     Line({"Link States"}, << "Type-5", "AS", "External", "Link", "States" >>, -1),
     LsaEntryLine,
     Run(LsaEntryLine, OSPF_LSA_FLOOD_THRESHOLD),
     Text(<< "10.0.0.2", "10.0.0.2" >>),
     Text(<< "OSPF", "Router", "with", "ID" >>)}

\* the call returns value
Returns(fn, value) ==
    /\ an_fn = fn
    /\ ~an_done
    /\ an_out' = value
    /\ an_done' = TRUE
    /\ UNCHANGED << an_fn, an_in >>
    /\ UNCHANGED << ScorerVars, OrchVars, SessVars >>

AnalyzeInterface ==
    Returns("InterfaceAnalyzer.analyze", InterfaceAnalyzer_analyze(an_in.structured, an_in.raw))
AnalyzeCpu ==
    Returns("CPUAnalyzer.analyze", CPUAnalyzer_analyze(an_in.structured, an_in.raw))
AnalyzeMemory ==
    Returns("MemoryAnalyzer.analyze", MemoryAnalyzer_analyze(an_in.structured, an_in.raw))
AnalyzeMemoryLegacy ==
    Returns("process_parsed_data", process_parsed_data_memory(an_in.structured, an_in.raw))
AnalyzeBgpSummary ==
    Returns("BGPAnalyzer.analyze_summary",
            BGPAnalyzer_analyze_summary(an_in.structured, an_in.raw))
AnalyzeOspfDatabase ==
    Returns("OSPFAnalyzer.analyze_database",
            OSPFAnalyzer_analyze_database(an_in.structured, an_in.raw))
AnalyzeOspfNeighbors ==
    Returns("OSPFAnalyzer.analyze_neighbors",
            OSPFAnalyzer_analyze_neighbors(an_in.structured, an_in.raw))
AnalyzeOspfInterfaces ==
    Returns("OSPFAnalyzer.analyze_interfaces",
            OSPFAnalyzer_analyze_interfaces(an_in.structured, an_in.raw))

\* _robust_read_until_prompt, lines 94-108, on every accumulated text of up to
\* MaxPieces pieces: echoed command, body lines with and without '#' or '>',
\* the prompt, and log lines, in any order, as output += chunk builds it
MaxPieces == 4
PieceKinds == {Echo(1), Body(1), MarkedBody(1), Prompt(1), Log(0)}
\* the argument of a function that takes the text alone
TextArg(text) == [text |-> text]

CleanText ==
    Returns("CiscoIOSCollector._robust_read_until_prompt", CleanOutput(an_in.text))

\* 'show ip bgp neighbors' of up to MaxDetailLines lines: marker lines with an
\* IPv4 address, with and without the remote AS on the line, a marker line
\* with an IPv6 address, the labelled lines, a "Connections established" line
\* whose counts do not parse, and a line of no kind
MaxDetailLines == 4
MarkerLine(ip) == Line({"BGP neighbor is"}, << "BGP", "neighbor", "is", ip >>, -1)
MarkerLineAs(ip, as) ==
    Line({"BGP neighbor is", "remote AS"}, << "BGP", "neighbor", "is", ip, as >>, -1)
BgpDetailLines ==
    {MarkerLine("10.0.0.2"), MarkerLineAs("10.0.0.3", "65003"),
     MarkerLineAs("2001:DB8::3", "65004"),
     Line({"remote AS"}, << "remote", "AS", "65002" >>, -1),
     Line({"BGP state ="}, << "BGP", "state", "=", "Idle" >>, -1),
     Line({"Connections established"}, << "Connections", "established", "dropped" >>, 7),
     Line({"Connections established"}, << "Connections", "established" >>, -1),
     Line({"Last reset"}, << "Last", "reset", "never" >>, -1),
     Line({"prefixes accepted"}, << "prefixes", "accepted" >>, 5),
     Text(<< "BGP", "version", "4" >>)}

ParseBgpNeighbors ==
    Returns("BGPParser.parse_bgp_neighbors", parse_bgp_neighbors(an_in.text))

\* 'show ip bgp summary' text of up to MaxSummaryLines lines for the parser
\* alone: the lines of BgpLineKinds, a row with 11 fields ("Idle (Admin)"),
\* and an empty line
MaxSummaryLines == 3
SummaryLineKinds == BgpLineKinds \cup {"long", "empty"}
SummaryLine(i, kind) ==
    CASE kind = "long" -> Text(<< NeighborIPs[i], "4", "65002", "5", "5", "1", "0", "0",
                                 "never", "Idle", "(Admin)" >>)
      [] kind = "empty" -> Text(<< >>)
      [] OTHER -> BgpSummaryLine(i, kind)
SummaryText(n, f) == [i \in 1..n |-> SummaryLine(i, f[i])]

ParseBgpSummary ==
    Returns("BGPParser.parse_bgp_summary", parse_bgp_summary(an_in.text))

vars == << sc_in, sc_out, an_fn, an_in, an_out, an_done, mainPc, hasProxy, submitted, task, cres, fut, yielded, cur,
           summary_lock, device_summary, writeLog,
           pc, commands, cmd_index, alive, pending, rx, buffer, output, elapsed,
           attempts, result, ssh, channel, sent >>

\* main() on a testbed of NumDevices devices
Init ==
    /\ sc_in = [k \in ScoreKeys |-> Absent]
    /\ sc_out = None
    /\ AnStart("idle", NoData)
    /\ \E proxy \in [Devices -> BOOLEAN] : OrchStart(proxy)
    /\ SessStart(<< >>)
Next ==
    \/ MainFindLab
    \/ MainProbe
    \/ MainSubmit
    \/ \E d \in Devices : TaskStart(d)
    \/ \E d \in Devices : TaskNoProxy(d)
    \/ \E d \in Devices : TaskCollect(d)
    \/ \E d \in Devices : TaskHang(d)
    \/ \E d \in Devices : TaskFinish(d)
    \/ MainNextFuture
    \/ MainAcquire
    \/ MainUpdate
    \/ MainSetError
    \/ MainRelease
    \/ MainCollected
    \/ MainExplain
    \/ MainNoExplain
Spec == Init /\ [][Next]_vars

\* the main thread and every pool worker keep running; a task in its session
\* either returns or is stuck
MainStep ==
    \/ MainFindLab
    \/ MainProbe
    \/ MainSubmit
    \/ MainNextFuture
    \/ MainAcquire
    \/ MainUpdate
    \/ MainSetError
    \/ MainRelease
    \/ MainCollected
    \/ MainExplain
    \/ MainNoExplain
TaskStep(d) == TaskStart(d) \/ TaskNoProxy(d) \/ TaskCollect(d) \/ TaskFinish(d)
FairSpec == Spec /\ WF_vars(MainStep) /\ \A d \in Devices : WF_vars(TaskStep(d))

\* one call of the scorer
ScorerInit ==
    /\ sc_in \in ScorerInputs
    /\ sc_out = None
    /\ AnStart("idle", NoData)
    /\ OrchStart([d \in Devices |-> TRUE])
    /\ SessStart(<< >>)
ScorerNext == Score
ScorerSpec == ScorerInit /\ [][ScorerNext]_vars

\* one session on one device
SessionInit ==
    /\ sc_in = [k \in ScoreKeys |-> Absent]
    /\ sc_out = None
    /\ AnStart("idle", NoData)
    /\ OrchStart([d \in Devices |-> TRUE])
    /\ \E cmds \in CommandLists : SessStart(cmds)
SessionNext ==
    \/ SessionStep
    \/ DeviceEmit
    \/ DeviceDrop
SessionSpec == SessionInit /\ [][SessionNext]_vars

\* the task that runs the session keeps running
FairSessionSpec == SessionSpec /\ WF_vars(SessionStep)

\* one call of one analyzer
AnalyzerInit ==
    /\ sc_in = [k \in ScoreKeys |-> Absent]
    /\ sc_out = None
    /\ \/ AnStart("InterfaceAnalyzer.analyze", NoData)
       \/ \E n \in 0..MaxIntfs : \E f \in [1..n -> IntfChoices] :
             AnStart("InterfaceAnalyzer.analyze", Output(<< >>, List(IntfList(n, f))))
       \/ \E n \in 0..MaxLines : \E raw \in [1..n -> CpuLines] : \E sd \in CpuStructured :
             AnStart("CPUAnalyzer.analyze", Output(raw, sd))
       \/ \E n \in 0..MaxLines : \E raw \in [1..n -> MemLines] : \E sd \in MemStructuredInputs :
             AnStart("MemoryAnalyzer.analyze", Output(raw, sd))
       \/ \E n \in 0..MaxLines : \E raw \in [1..n -> MemLines] : \E sd \in MemStructuredInputs :
             AnStart("process_parsed_data", Output(raw, sd))
       \/ \E n \in 0..MaxLines : \E f \in [1..n -> BgpLineKinds] :
             \/ AnStart("BGPAnalyzer.analyze_summary", Output(BgpSummaryRaw(n, f), NoList))
             \/ \E k \in 0..MaxNeighbors : \E g \in [1..k -> BgpChoices] :
                   AnStart("BGPAnalyzer.analyze_summary",
                           Output(BgpSummaryRaw(n, f), List(BgpList(k, g))))
       \/ \E n \in 0..MaxLines : \E f \in [1..n -> OspfLineKinds] : \E sd \in {NoList, List(<< >>)} :
             AnStart("OSPFAnalyzer.analyze_neighbors", Output(OspfNeighborRaw(n, f), sd))
       \/ \E n \in 0..MaxLsaLines : \E raw \in [1..n -> LsaLines] :
             AnStart("OSPFAnalyzer.analyze_database", Output(raw, NoList))
       \/ \E k \in 1..MaxNeighbors : \E g \in [1..k -> OspfChoices] :
             \E raw \in {<< >>, << OspfRow("10.1.13.3", "2WAY/DROTHER", "00:00:37") >>} :
                 AnStart("OSPFAnalyzer.analyze_neighbors", Output(raw, List(OspfList(k, g))))
       \/ \E n \in 1..MaxIntfs : \E f \in [1..n -> OspfIntfStates] :
             AnStart("OSPFAnalyzer.analyze_interfaces", Output(<< >>, List(OspfIntfList(n, f))))
       \/ \E n \in 1..MaxLines : \E raw \in [1..n -> OspfIntfLines] :
             AnStart("OSPFAnalyzer.analyze_interfaces", Output(raw, NoList))
       \/ \E n \in 0..MaxPieces : \E text \in [1..n -> PieceKinds] :
             /\ Concat(<< >>, text) = text
             /\ AnStart("CiscoIOSCollector._robust_read_until_prompt", TextArg(text))
       \/ \E n \in 0..MaxDetailLines : \E raw \in [1..n -> BgpDetailLines] :
             AnStart("BGPParser.parse_bgp_neighbors", TextArg(raw))
       \/ \E n \in 0..MaxSummaryLines : \E f \in [1..n -> SummaryLineKinds] :
             AnStart("BGPParser.parse_bgp_summary", TextArg(SummaryText(n, f)))
    /\ OrchStart([d \in Devices |-> TRUE])
    /\ SessStart(<< >>)
AnalyzerNext ==
    \/ AnalyzeOspfDatabase
    \/ AnalyzeInterface
    \/ AnalyzeCpu
    \/ AnalyzeMemory
    \/ AnalyzeMemoryLegacy
    \/ AnalyzeBgpSummary
    \/ AnalyzeOspfNeighbors
    \/ AnalyzeOspfInterfaces
    \/ CleanText
    \/ ParseBgpNeighbors
    \/ ParseBgpSummary
AnalyzerSpec == AnalyzerInit /\ [][AnalyzerNext]_vars

(***************************************************************************)
(* Properties.                                                             *)
(***************************************************************************)
\* main() has its final report, with the testbed loaded
MainEnded == mainPc \in {"ts_unreachable", "save"}

\* the entries of the report that are device records
DeviceEntries == DOMAIN device_summary \ {network_analysis}

\* C1 (Spec): when main() ends, the report has one entry for every configured
\* device, and every entry has reachable and overall_health.  The code returns
\* with an empty report when the terminal server does not answer the TCP probe.
C1_EveryConfiguredDeviceReported ==
    MainEnded =>
        /\ DeviceEntries = Devices
        /\ \A d \in Devices : {"reachable", "overall_health"} \subseteq DOMAIN device_summary[d]

\* the strict AND of the scorer, written from its rule
StrictAnd(statuses) ==
    /\ Get(statuses, "interface_health", "Unknown") = "Good"
    /\ Get(statuses, "cpu_health", "Unknown") = "OK"
    /\ Get(statuses, "memory_health", "Unknown") = "OK"
    /\ Get(statuses, "bgp_health", "NOT_CONFIGURED") \in {"NOT_CONFIGURED", "OK"}
    /\ Get(statuses, "ospf_health", "NOT_CONFIGURED") # "CRITICAL"

\* C2 (ScorerSpec): calculate_overall_health returns HEALTHY iff interface is
\* Good, CPU and memory are OK, BGP is NOT_CONFIGURED or OK and OSPF is not
\* CRITICAL, with a missing interface/CPU/memory status counted as Unknown and a
\* missing BGP/OSPF status as NOT_CONFIGURED; it returns UNHEALTHY otherwise.
C2_ScorerIsStrictAnd ==
    sc_out # None =>
        sc_out = (IF StrictAnd(AsDict(sc_in)) THEN "HEALTHY" ELSE "UNHEALTHY")

\* OSPF WARNING alone, with BGP missing, scored HEALTHY
C2_Witness ==
    /\ sc_out = "HEALTHY"
    /\ sc_in["ospf_health"] = "WARNING"
    /\ sc_in["bgp_health"] = Absent

\* C3 (Spec): an exception inside one analyzer does not abort the device: the
\* entry of a device whose session reached it stays reachable = true, with an
\* overall_health computed by the scorer and a verdict for OSPF, which is
\* analysed after BGP.  The code lets the exception leave process_device.
C3_AnalyzerExceptionIsolated ==
    \A d \in DeviceEntries :
        (hasProxy[d] /\ cres[d].reachable /\ DOMAIN cres[d].outputs = DOMAIN BaseOutputs) =>
            /\ device_summary[d]["reachable"] = TRUE
            /\ device_summary[d]["overall_health"] \in {"HEALTHY", "UNHEALTHY"}
            /\ "ospf_health" \in DOMAIN device_summary[d]

\* C5 (Spec): every write to device_summary is a step of the merge loop of the
\* main thread, taken while the main thread holds summary_lock; no step of a
\* device task changes device_summary.  In the code generate_ai_explanations
\* writes to device_summary as well, in place and without summary_lock:
\* report entries that the merge step wrote gain keys, and the report gains
\* the key 'network_analysis'.
C5_WritesUnderLock ==
    [][device_summary' # device_summary =>
          /\ mainPc \in {"update", "set_error"}
          /\ summary_lock = Main
          /\ summary_lock' = Main
          /\ task' = task]_vars

\* the explanation step: the pool has shut down, and the step only adds the
\* two explanation keys to entries and the key 'network_analysis' to the report
ExplanationWrite ==
    /\ mainPc = "collected"
    /\ \A d \in Devices : task[d] = "finished"
    /\ DOMAIN device_summary' = DOMAIN device_summary \cup {network_analysis}
    /\ \A d \in DOMAIN device_summary :
          /\ DOMAIN device_summary'[d] \ DOMAIN device_summary[d]
                \subseteq {"ai_explanation", "explanation_type"}
          /\ \A k \in DOMAIN device_summary[d] : device_summary'[d][k] = device_summary[d][k]

\* what the code does keep: a write to device_summary is a step of the merge
\* loop taken with summary_lock held by the main thread, or the explanation
\* step; no step of a device task changes device_summary
WritesUnderLockWhilePoolRuns ==
    [][device_summary' # device_summary =>
          /\ task' = task
          /\ \/ /\ mainPc \in {"update", "set_error"}
                /\ summary_lock = Main
                /\ summary_lock' = Main
             \/ ExplanationWrite]_vars

\* C6 (Spec): an entry with reachable = false has no component verdict, has
\* overall_health = UNREACHABLE and carries the error.  The code writes
\* overall_health = ERROR for a device task that raised.
C6_UnreachableEntry ==
    \A d \in DOMAIN device_summary :
        Get(device_summary[d], "reachable", TRUE) = FALSE =>
            /\ DOMAIN device_summary[d] \cap ScoreKeys = {}
            /\ device_summary[d]["overall_health"] = "UNREACHABLE"
            /\ "error" \in DOMAIN device_summary[d]

\* C4 (SessionSpec): when collect_from_device returns after the channel was
\* opened, "exit" has been sent and channel and client are closed.  The code
\* closes without "exit" when no prompt came, and closes nothing when a send
\* raises.
C4_SessionTornDown ==
    (pc = "done" /\ channel # "none") =>
        /\ "exit" \in { sent[n] : n \in 1..Len(sent) }
        /\ channel = "closed"
        /\ ssh = "closed"

\* C7 (FairSessionSpec): every read that starts returns.  In the code the inner
\* loop that follows a '#' or '>' has no time limit.
C7_ReadTerminates == (pc = "read_start") ~> (pc = "store")

\* the pieces command number n's stored text holds of an earlier command
Contamination(n) ==
    { piece \in { Flatten(result.outputs[commands[n]].raw)[m] :
                    m \in 1..Len(Flatten(result.outputs[commands[n]].raw)) } :
        piece.k >= 1 /\ piece.k < n }

\* C8 (SessionSpec): the text stored for a command holds nothing the device
\* wrote in answer to an earlier command of the session.  In the code, text
\* that arrives after the drain has returned is read as the next command's.
C8_NoCrossCommandContamination ==
    \A n \in 1..Len(commands) :
        commands[n] \in DOMAIN result.outputs => Contamination(n) = {}

\* the commands sent so far
IsCommand(text) == \E n \in 1..Len(commands) : commands[n] = text
SentCommands == SelectSeq(sent, IsCommand)
Stored == Cardinality(DOMAIN result.outputs)

\* C9 (SessionSpec): the commands are sent in the order of the list, each at
\* most once, at most one is outstanding, and a command is sent only after
\* the read of the one before has returned and been stored and _clear_buffer
\* has returned since.
C9_StrictlySequential ==
    /\ [](/\ SentCommands = SubSeq(commands, 1, Len(SentCommands))
          /\ DOMAIN result.outputs = { commands[n] : n \in 1..Stored }
          /\ Len(SentCommands) - Stored \in {0, 1})
    /\ [][/\ (Len(SentCommands') > Len(SentCommands) =>
                  pc = "send" /\ Stored = Len(SentCommands))
          /\ (pc' = "send" =>
                  pc = "send" \/ (pc = "clear" /\ attempts >= max_attempts))]_vars

\* the whole list was sent, answered and stored, and the session left
C9_Witness ==
    /\ pc = "done"
    /\ SentCommands = commands
    /\ Stored = Len(commands)
    /\ sent[Len(sent)] = "exit"

\* C10 (SessionSpec): a read that ends with nothing received stores empty text
\* and no structured data under its command and touches nothing else: the
\* other outputs, reachable = true and error = None stay, and the loop goes on
\* with the next command.
C10_TimeoutNotFatal ==
    [][(pc = "store" /\ output = << >> /\ pc' # "store") =>
          /\ result'.outputs = Update(result.outputs,
                                      (commands[cmd_index] :> [raw |-> << >>, structured |-> None]))
          /\ result'.reachable = TRUE
          /\ result'.error = None
          /\ cmd_index' = cmd_index
          /\ pc' = "for"]_vars

\* the first command timed out with nothing received, the second was answered
\* and stored, and the session ended without error
C10_Witness ==
    /\ pc = "done"
    /\ Stored = Len(commands)
    /\ result.outputs[commands[1]] = [raw |-> << >>, structured |-> None]
    /\ result.outputs[commands[2]].raw # << >>
    /\ result.reachable
    /\ result.error = None


\* C11 (AnalyzerSpec): for each of the five components, when its command
\* produced no data (empty raw text and no structured records) the analyzer
\* returns Unknown or NOT_CONFIGURED, never Good or OK.  The interface analyzer
\* has no fallback and returns Good with an empty interfaces_down.
C11_NoDataIsUnknown ==
    (an_done /\ an_in \in EmptyOutputs) => an_out.status \in {"Unknown", "NOT_CONFIGURED"}


\* C12 (FairSpec): a device task stuck in its session does not block the
\* others: every submitted device whose own task does not get stuck has its
\* record merged into device_summary, whatever the submission order.
C12_HungDeviceDoesNotBlock ==
    \A d \in Devices : (task[d] = "queued") ~> (task[d] = "hung" \/ d \in DOMAIN device_summary)

\* the device submitted first is stuck, one submitted after it is in the report
C12_Witness ==
    \E d, e \in Devices : d < e /\ task[d] = "hung" /\ e \in DOMAIN device_summary


\* an address is assigned: the field is there and is not the sentinel, in any
\* letter case; link and protocol are up when they read "up" in any letter case
C13_Assigned(intf) ==
    "ipaddr" \in DOMAIN intf /\ intf["ipaddr"] \notin {"", "unassigned", "Unassigned", "UNASSIGNED"}
C13_NotUpUp(intf) ==
    intf["status"] \notin {"up", "Up", "UP"} \/ intf["protocol"] \notin {"up", "Up", "UP"}
C13_Down(items) ==
    { i \in 1..Len(items) : C13_Assigned(items[i]) /\ C13_NotUpUp(items[i]) }
C13_Listed(down) == { down[k]["interface"] : k \in 1..Len(down) }

\* C13 (AnalyzerSpec): InterfaceAnalyzer.analyze returns Warning iff at least
\* one interface with an assigned address has link status or protocol status
\* other than up, and Good otherwise; interfaces_down lists exactly those
\* interfaces, and an unassigned interface is never listed and never changes
\* the status.
C13_WarningIffAssignedDown ==
    (an_done /\ an_fn = "InterfaceAnalyzer.analyze") =>
        /\ an_out.status = (IF C13_Down(an_in.structured.items) # {} THEN "Warning" ELSE "Good")
        /\ Len(an_out.interfaces_down) = Cardinality(C13_Down(an_in.structured.items))
        /\ C13_Listed(an_out.interfaces_down)
              = { an_in.structured.items[i]["interface"] : i \in C13_Down(an_in.structured.items) }

\* an unassigned interface that is down next to an assigned one whose protocol
\* is down: Warning, with the assigned one alone listed
C13_Witness ==
    /\ an_done
    /\ an_fn = "InterfaceAnalyzer.analyze"
    /\ Len(an_in.structured.items) = 2
    /\ Get(an_in.structured.items[1], "ipaddr", None) = "unassigned"
    /\ an_in.structured.items[1]["status"] = "down"
    /\ Get(an_in.structured.items[2], "ipaddr", None) = "10.0.0.1"
    /\ an_in.structured.items[2]["status"] = "up"
    /\ an_in.structured.items[2]["protocol"] = "down"
    /\ an_out.status = "Warning"
    /\ Len(an_out.interfaces_down) = 1


\* the utilization the claim speaks of: the cpu_utilization of the first
\* structured record when it is a number, else the value of the first
\* "CPU utilization" line that has one, else nothing (-1)
RECURSIVE C14_FromLines(_)
C14_FromLines(lines) ==
    IF lines = << >> THEN -1
    ELSE IF "CPU utilization" \in Head(lines).tags /\ Head(lines).num >= 0 THEN Head(lines).num
    ELSE C14_FromLines(Tail(lines))
C14_Extracted(in) ==
    IF /\ in.structured.isList
       /\ Len(in.structured.items) > 0
       /\ "cpu_utilization" \in DOMAIN in.structured.items[1]
       /\ IsInt(in.structured.items[1]["cpu_utilization"])
    THEN IntOf(in.structured.items[1]["cpu_utilization"])
    ELSE C14_FromLines(in.raw)

\* C14 (AnalyzerSpec): CPUAnalyzer.analyze returns CRITICAL iff a utilization
\* was extracted and it is >= 70, OK iff one was extracted and it is < 70, and
\* Unknown with cpu_percent = 0 iff none could be extracted from the structured
\* records or a "CPU utilization" line.  The code takes "0%" for a structured
\* record without cpu_utilization and returns OK with cpu_percent = 0, without
\* looking at the raw text.
C14_CpuVerdictFromExtractedValue ==
    (an_done /\ an_fn = "CPUAnalyzer.analyze") =>
        an_out = (IF C14_Extracted(an_in) < 0
                  THEN [status |-> "Unknown", cpu_percent |-> 0]
                  ELSE [status |-> IF C14_Extracted(an_in) >= 70 THEN "CRITICAL" ELSE "OK",
                        cpu_percent |-> C14_Extracted(an_in)])


\* the byte counts of an input whose Processor pool reads cleanly: the first
\* structured record, or without structured data the header row followed by
\* the Processor row
C15_Counts(total, used) == [given |-> TRUE, total |-> IntOf(total), used |-> IntOf(used)]
C15_Given(in) ==
    IF /\ Len(in.structured.items) > 0
       /\ in.structured.items[1]["pool"] = "Processor"
       /\ IsInt(in.structured.items[1]["used"])
    THEN C15_Counts(in.structured.items[1]["total"], in.structured.items[1]["used"])
    ELSE IF /\ Len(in.structured.items) = 0
            /\ Len(in.raw) = 2
            /\ in.raw[1] = MemHeader
            /\ Len(in.raw[2].parts) >= 5
            /\ in.raw[2].parts[1] = "Processor"
            /\ IsInt(in.raw[2].parts[3])
    THEN C15_Counts(in.raw[2].parts[3], in.raw[2].parts[4])
    ELSE [given |-> FALSE, total |-> 0, used |-> 0]

\* C15 (AnalyzerSpec): MemoryAnalyzer.analyze computes memory_used_percent as
\* floor(100 * used / total) whenever total > 0 and returns CRITICAL iff it is
\* >= 80 and OK iff it is < 80; with total = 0, or with nothing parsed, the
\* status is Unknown and the percentage 0.  The code computes
\* int((used / total) * 100) in floating point, which is 28 for used = 29 and
\* total = 100.
C15_PercentIsFloor ==
    (an_done /\ an_fn = "MemoryAnalyzer.analyze") =>
        /\ (C15_Given(an_in).given /\ C15_Given(an_in).total > 0) =>
              /\ an_out.memory_used_percent
                    = (100 * C15_Given(an_in).used) \div C15_Given(an_in).total
              /\ an_out.status = (IF an_out.memory_used_percent >= 80 THEN "CRITICAL" ELSE "OK")
        /\ ((C15_Given(an_in).given /\ C15_Given(an_in).total = 0) \/ an_in \in EmptyOutputs) =>
              /\ an_out.status = "Unknown"
              /\ an_out.memory_used_percent = 0


\* valid memory text with total > 0 and no structured data: the free-text
\* layout, or the header row followed by a Processor row
C16_FreeTextLayout(in) ==
    /\ ~in.structured.isList
    /\ in.raw \in {<< MemFreeText("100", "80") >>, << MemPoolText("100", "80") >>}
C16_ColumnLayout(in) ==
    /\ ~in.structured.isList
    /\ Len(in.raw) = 2
    /\ in.raw[1] = MemHeader
    /\ in.raw[2] \in { MemProcessorRow("100", u) : u \in MemUseds }

\* C16 (AnalyzerSpec): the memory fallback parser recognises both text
\* layouts: from a free-text "Total: n Used: n Free: n" line and from a header
\* row followed by a Processor row it extracts total, used and free, so valid
\* text of either layout with total > 0 never yields Unknown.
\* MemoryAnalyzer.analyze reads the column layout only.
C16_BothLayoutsRecognised ==
    (an_done /\ an_fn = "MemoryAnalyzer.analyze"
        /\ (C16_FreeTextLayout(an_in) \/ C16_ColumnLayout(an_in))) =>
            an_out.status # "Unknown"


\* the states of the neighbor rows found: of the structured records when there
\* are any (state, else state_pfxrcd, else Unknown), else column 10 of the
\* IPv4 rows of the text that have at least 10 fields
RECURSIVE C17_TextStates(_)
C17_TextStates(lines) ==
    IF lines = << >> THEN << >>
    ELSE IF Head(lines).parts[1] \in IPv4Tokens /\ Len(Head(lines).parts) >= 10
         THEN << Head(lines).parts[10] >> \o C17_TextStates(Tail(lines))
         ELSE C17_TextStates(Tail(lines))
C17_RecordState(r) ==
    IF "state" \in DOMAIN r THEN r["state"]
    ELSE IF "state_pfxrcd" \in DOMAIN r THEN r["state_pfxrcd"] ELSE "Unknown"
C17_States(in) ==
    IF Len(in.structured.items) > 0
    THEN [i \in 1..Len(in.structured.items) |-> C17_RecordState(in.structured.items[i])]
    ELSE C17_TextStates(in.raw)
C17_Established(state) == state = "Established" \/ IsInt(state)
C17_Down(state) == ~C17_Established(state)

\* C17 (AnalyzerSpec): BGPAnalyzer.analyze_summary returns NOT_CONFIGURED iff
\* no neighbor row is found, otherwise CRITICAL iff established_neighbors <
\* total_neighbors and OK iff they are equal; a neighbor is established iff its
\* state is Established or numeric, and down_neighbors lists exactly the
\* others, in order, with their state.
C17_BgpSummaryVerdict ==
    (an_done /\ an_fn = "BGPAnalyzer.analyze_summary") =>
        /\ an_out.status =
              (IF C17_States(an_in) = << >> THEN "NOT_CONFIGURED"
               ELSE IF an_out.established_neighbors < an_out.total_neighbors THEN "CRITICAL"
               ELSE "OK")
        /\ an_out.total_neighbors = Len(C17_States(an_in))
        /\ an_out.established_neighbors = Len(SelectSeq(C17_States(an_in), C17_Established))
        /\ [k \in 1..Len(an_out.down_neighbors) |-> an_out.down_neighbors[k].state]
              = SelectSeq(C17_States(an_in), C17_Down)

\* two IPv4 rows in the text, column 10 numeric in one and Idle in the other:
\* established 1 of 2, CRITICAL, the Idle neighbor alone in down_neighbors
C17_Witness ==
    /\ an_done
    /\ an_fn = "BGPAnalyzer.analyze_summary"
    /\ an_in = Output(<< BgpRow("10.0.0.2", "5"), BgpRow("10.0.0.3", "Idle") >>, NoList)
    /\ an_out.status = "CRITICAL"
    /\ an_out.established_neighbors = 1
    /\ an_out.total_neighbors = 2
    /\ Len(an_out.down_neighbors) = 1
    /\ an_out.down_neighbors[1].state = "Idle"
    /\ an_out.down_neighbors[1].neighbor = "10.0.0.3"


\* the neighbor rows found, as state, dead time and area: the structured
\* records when there are any, else the IPv4 rows of the text with at least 6
\* fields, which are all of area 0.0.0.0
C18_Row(state, dead, area) == [state |-> state, dead |-> dead, area |-> area]
RECURSIVE C18_TextRows(_)
C18_TextRows(lines) ==
    IF lines = << >> THEN << >>
    ELSE IF Head(lines).parts[1] \in IPv4Tokens /\ Len(Head(lines).parts) >= 6
         THEN << C18_Row(Head(lines).parts[3], Head(lines).parts[4], "0.0.0.0") >>
                  \o C18_TextRows(Tail(lines))
         ELSE C18_TextRows(Tail(lines))
C18_RecordRow(r) ==
    C18_Row(r["state"], r["dead_time"], IF "area" \in DOMAIN r THEN r["area"] ELSE "0.0.0.0")
C18_Rows(in) ==
    IF Len(in.structured.items) > 0
    THEN [i \in 1..Len(in.structured.items) |-> C18_RecordRow(in.structured.items[i])]
    ELSE C18_TextRows(in.raw)
C18_Full(row) == row.state \in {"FULL/DR", "full/dr"}
C18_NotFull(row) == ~C18_Full(row)
C18_LowDead(row) == row.dead \in {"00:00:00", "00:00:05", "00:00:10"}

\* C18 (AnalyzerSpec): OSPFAnalyzer.analyze_neighbors returns NOT_CONFIGURED iff
\* there are no neighbor rows; otherwise CRITICAL iff some neighbor's state
\* does not contain FULL; otherwise WARNING iff some neighbor has a dead timer
\* of 10 seconds or less; otherwise OK.  full_neighbors and total_neighbors
\* count the rows, and down_neighbors has the neighbors that are not FULL, each
\* with its area.
C18_OspfNeighborsVerdict ==
    (an_done /\ an_fn = "OSPFAnalyzer.analyze_neighbors") =>
        /\ an_out.status =
              (IF C18_Rows(an_in) = << >> THEN "NOT_CONFIGURED"
               ELSE IF SelectSeq(C18_Rows(an_in), C18_NotFull) # << >> THEN "CRITICAL"
               ELSE IF SelectSeq(C18_Rows(an_in), C18_LowDead) # << >> THEN "WARNING"
               ELSE "OK")
        /\ an_out.total_neighbors = Len(C18_Rows(an_in))
        /\ an_out.full_neighbors = Len(SelectSeq(C18_Rows(an_in), C18_Full))
        /\ [k \in 1..Len(an_out.down_neighbors) |-> an_out.down_neighbors[k].area]
              = [k \in 1..Len(SelectSeq(C18_Rows(an_in), C18_NotFull)) |->
                    SelectSeq(C18_Rows(an_in), C18_NotFull)[k].area]

\* [FULL, 2WAY]: CRITICAL, 1 of 2 full, the 2WAY neighbor in down_neighbors with
\* its area
C18_Witness ==
    /\ an_done
    /\ an_fn = "OSPFAnalyzer.analyze_neighbors"
    /\ Len(an_in.structured.items) = 2
    /\ an_in.structured.items[1]["state"] = "FULL/DR"
    /\ an_in.structured.items[2]["state"] = "2WAY/DROTHER"
    /\ Get(an_in.structured.items[2], "area", None) = "0.0.0.1"
    /\ an_out.status = "CRITICAL"
    /\ an_out.full_neighbors = 1
    /\ an_out.total_neighbors = 2
    /\ Len(an_out.down_neighbors) = 1
    /\ an_out.down_neighbors[1].state = "2WAY/DROTHER"
    /\ an_out.down_neighbors[1].area = "0.0.0.1"


\* a header is a "<Type> Link States (Area <id>)" line; an entry is an IPv4
\* line with at least 3 fields that has a header before it, and it belongs to
\* the last header before it
C19_IsHeader(l) == {"Link States", "Area"} \subseteq l.tags
C19_Headers(lines, i) == { j \in 1..i : C19_IsHeader(lines[j]) }
C19_LastHeader(lines, i) ==
    CHOOSE j \in C19_Headers(lines, i) : \A k \in C19_Headers(lines, i) : k <= j
C19_IsEntry(lines, i) ==
    /\ lines[i].parts[1] \in IPv4Tokens
    /\ Len(lines[i].parts) >= 3
    /\ C19_Headers(lines, i) # {}

\* the number of entries from line i on whose header has value in field
\* (1 the type, 2 the area; field 0 counts every entry)
RECURSIVE C19_Entries(_, _, _, _)
C19_Entries(lines, i, field, value) ==
    IF i > Len(lines) THEN 0
    ELSE (IF /\ C19_IsEntry(lines, i)
             /\ (field = 0 \/ lines[C19_LastHeader(lines, i)].parts[field] = value)
          THEN Times(lines[i]) ELSE 0)
            + C19_Entries(lines, i + 1, field, value)
C19_HeaderValues(lines, field) ==
    { lines[j].parts[field] : j \in C19_Headers(lines, Len(lines)) }

\* C19 (AnalyzerSpec): OSPFAnalyzer.analyze_database counts as LSA entries
\* exactly the IPv4 lines with at least 3 fields that follow a
\* "<Type> Link States (Area <id>)" header, counts each for the type and the
\* area of the last header before it, and returns WARNING iff the total is
\* above 10,000, OK otherwise.
C19_LsaCountedPerLastHeader ==
    (an_done /\ an_fn = "OSPFAnalyzer.analyze_database") =>
        /\ an_out.total_lsas = C19_Entries(an_in.raw, 1, 0, None)
        /\ DOMAIN an_out.lsa_by_type = C19_HeaderValues(an_in.raw, 1)
        /\ \A ty \in DOMAIN an_out.lsa_by_type :
              an_out.lsa_by_type[ty] = C19_Entries(an_in.raw, 1, 1, ty)
        /\ DOMAIN an_out.lsa_by_area = C19_HeaderValues(an_in.raw, 2)
        /\ \A ar \in DOMAIN an_out.lsa_by_area :
              an_out.lsa_by_area[ar] = C19_Entries(an_in.raw, 1, 2, ar)
        /\ an_out.status = (IF an_out.total_lsas > 10000 THEN "WARNING" ELSE "OK")

\* a Router header in area 0 with 10,000 entries, then a Summary Net header in
\* area 1 with one entry: 10,001 entries, the last one counted for Summary Net
\* and area 1 alone, WARNING
C19_Witness ==
    /\ an_done
    /\ an_fn = "OSPFAnalyzer.analyze_database"
    /\ Len(an_in.raw) = 4
    /\ an_in.raw[2] = Run(LsaEntryLine, OSPF_LSA_FLOOD_THRESHOLD)
    /\ an_in.raw[4] = LsaEntryLine
    /\ an_out.lsa_by_type = ("Router" :> 10000) @@ ("Summary Net" :> 1)
    /\ an_out.lsa_by_area = ("0" :> 10000) @@ ("1" :> 1)
    /\ an_out.total_lsas = 10001
    /\ an_out.status = "WARNING"


\* the outputs of the five commands whose verdicts are scored
C20_ScoredCommands ==
    {"show ip interface brief", "show processes cpu", "show memory statistics",
     "show ip bgp summary", "show ip ospf neighbor"}
C20_ScoredOnly(r) ==
    [r EXCEPT !.outputs = [c \in DOMAIN r.outputs \cap C20_ScoredCommands |-> r.outputs[c]]]
C20_Without(d) == process_device(d, TRUE, C20_ScoredOnly(cres[d])).value[d]

\* C20 (Spec): overall_health and bgp_health depend only on the interface, CPU,
\* memory, BGP-summary and OSPF-neighbor verdicts: the device's entry has the
\* overall_health and bgp_health it would have without the routing-table, BGP
\* neighbor-detail, OSPF-database and OSPF-interface outputs.  The code lets
\* the exception of the BGP neighbor-detail analysis turn the entry into an
\* ERROR entry.
C20_InformationalAnalysesLeaveHealth ==
    \A d \in DeviceEntries :
        (hasProxy[d] /\ cres[d].reachable) =>
            /\ device_summary[d]["overall_health"] = C20_Without(d)["overall_health"]
            /\ Get(device_summary[d], "bgp_health", Absent)
                  = Get(C20_Without(d), "bgp_health", Absent)


\* the stage of a device in its life cycle, read from its task, its collection
\* result, its future and the report
Phase(d) ==
    IF d \in DOMAIN device_summary THEN "MERGED"
    ELSE IF task[d] \in {"new", "queued"} THEN "PENDING"
    ELSE IF task[d] \in {"started", "hung"} THEN "CONNECTING"
    ELSE IF task[d] = "collected"
         THEN (IF cres[d].reachable THEN "COLLECTING" ELSE "UNREACHABLE")
    ELSE IF fut[d].kind = "return" /\ ~fut[d].value[d]["reachable"] THEN "UNREACHABLE"
    ELSE IF fut[d].kind = "raise" \/ cres[d].error # None THEN "PARTIAL_ERROR"
    ELSE "ANALYZED"

C21_Transitions ==
    { << "PENDING", "CONNECTING" >>, << "CONNECTING", "UNREACHABLE" >>,
      << "CONNECTING", "COLLECTING" >>, << "COLLECTING", "PARTIAL_ERROR" >>,
      << "COLLECTING", "ANALYZED" >>, << "UNREACHABLE", "MERGED" >>,
      << "PARTIAL_ERROR", "MERGED" >>, << "ANALYZED", "MERGED" >> }

\* the steps of the life cycle: the stages in order, one session per device,
\* analysis after collection, one merge and only of a finished task; what the
\* merge wrote into the entry stays as it is
C21_Steps ==
    \A d \in Devices :
        /\ Phase(d)' # Phase(d) => << Phase(d), Phase(d)' >> \in C21_Transitions
        /\ cres'[d] # cres[d] => task[d] = "started" /\ task'[d] = "collected"
        /\ fut'[d] # fut[d] => task[d] \in {"started", "collected"} /\ fut[d] = NotDone
        /\ (fut'[d] # fut[d] /\ hasProxy[d]) => task[d] = "collected"
        /\ (d \in DOMAIN device_summary' /\ d \notin DOMAIN device_summary) =>
              task[d] = "finished" /\ cur = d
        /\ d \in DOMAIN device_summary =>
              /\ d \in DOMAIN device_summary'
              /\ \A k \in DOMAIN device_summary[d] :
                    /\ k \in DOMAIN device_summary'[d]
                    /\ device_summary'[d][k] = device_summary[d][k]

\* C21 (FairSpec): each device goes PENDING -> CONNECTING -> (UNREACHABLE |
\* COLLECTING) -> (PARTIAL_ERROR | ANALYZED) -> MERGED and takes no other step:
\* it is connected at most once, analysed only after collection, merged exactly
\* once and only after its task has finished, and every submitted device
\* reaches MERGED.  In the code a task whose session does not return stays in
\* CONNECTING for ever.
C21_DeviceLifecycle ==
    /\ [][C21_Steps]_vars
    /\ \A d \in Devices : (task[d] = "queued") ~> (Phase(d) = "MERGED")


\* the TCP probe of the terminal server has succeeded; a device's session (the
\* SSH connect and everything after it) has been opened
ProbeSucceeded == mainPc \notin {"find_lab", "no_lab", "probe", "ts_unreachable"}
SessionOpened(d) ==
    task[d] \in {"collected", "hung"} \/ (task[d] = "finished" /\ hasProxy[d])

\* C22 (Spec): the SSH connect for a device is attempted only after the TCP
\* probe has succeeded, and after a failed probe no session is opened and no
\* command sent for any device, and each device is reported Unreachable.  The
\* code returns from main() after a failed probe without an entry for any
\* device.
C22_FailFast ==
    /\ \A d \in Devices : SessionOpened(d) => ProbeSucceeded
    /\ mainPc = "ts_unreachable" =>
          \A d \in Devices :
              /\ ~SessionOpened(d)
              /\ cres[d] = NoCollection
              /\ d \in DOMAIN device_summary
              /\ device_summary[d]["overall_health"] = "UNREACHABLE"


\* the read ends before its timeout: the inner loop found the channel not ready
EarlyStop == pc = "trail" /\ pc' = "store"

\* the tail of the text read is a prompt: a line that ends with '#' or '>' and
\* has no newline after it
EndsWithPrompt(text) == text # << >> /\ text[Len(text)].t = "prompt"

\* C23 (SessionSpec): _robust_read_until_prompt stops reading before its
\* timeout only when the text read so far ends with a prompt terminator and the
\* channel has gone idle; a '#' or '>' in the body of the output does not end
\* the read.  The code looks for '#' or '>' anywhere in the chunk just read and
\* stops as soon as the channel is idle, with the rest of the body unread.
C23_EarlyStopOnlyAtPrompt ==
    [][EarlyStop => EndsWithPrompt(output)]_vars


\* a line that is the prompt and nothing else
C24_BarePrompt(line) == Len(line) = 1 /\ line[1].t = "prompt"
C24_DropLast(lines) ==
    IF lines # << >> /\ C24_BarePrompt(lines[Len(lines)])
    THEN SubSeq(lines, 1, Len(lines) - 1) ELSE lines
C24_Expected(text) ==
    IF Len(splitlines(text)) <= 1 THEN << >> ELSE C24_DropLast(Tail(splitlines(text)))

\* C24 (AnalyzerSpec): the text returned for a command is the accumulated text
\* without its first line and without its last line if that line is bare
\* prompt text; every other line is returned unchanged and in order, and an
\* empty or one-line text yields empty output.  The code removes the last line
\* whenever it contains '#' or '>'.
C24_OnlyEchoAndPromptRemoved ==
    (an_done /\ an_fn = "CiscoIOSCollector._robust_read_until_prompt") =>
        an_out = C24_Expected(an_in.text)


\* the records the claim describes: one per marker line, in input order, each
\* with the address of its marker and, for every label, the value of the last
\* line that carries it between its marker and the next one
C25_IsMarker(l) == "BGP neighbor is" \in l.tags
C25_End(lines, i) ==
    IF \E j \in (i + 1)..Len(lines) : C25_IsMarker(lines[j])
    THEN (CHOOSE j \in (i + 1)..Len(lines) :
             /\ C25_IsMarker(lines[j])
             /\ \A k \in (i + 1)..(j - 1) : ~C25_IsMarker(lines[k])) - 1
    ELSE Len(lines)
C25_Carries(l, tag) ==
    tag \in l.tags /\ (tag \in {"Connections established", "prefixes accepted"} => l.num >= 0)
C25_Last(lines, i, tag) ==
    IF \E n \in i..C25_End(lines, i) : C25_Carries(lines[n], tag)
    THEN CHOOSE n \in i..C25_End(lines, i) :
             /\ C25_Carries(lines[n], tag)
             /\ \A k \in (n + 1)..C25_End(lines, i) : ~C25_Carries(lines[k], tag)
    ELSE 0
C25_LastField(lines, i, tag, default) ==
    IF C25_Last(lines, i, tag) = 0 THEN default
    ELSE lines[C25_Last(lines, i, tag)].parts[Len(lines[C25_Last(lines, i, tag)].parts)]
C25_LastNum(lines, i, tag) ==
    IF C25_Last(lines, i, tag) = 0 THEN 0 ELSE lines[C25_Last(lines, i, tag)].num
C25_Record(lines, i) ==
    [neighbor |-> lines[i].parts[4],
     remote_as |-> C25_LastField(lines, i, "remote AS", None),
     state |-> C25_LastField(lines, i, "BGP state =", None),
     prefixes_received |-> C25_LastNum(lines, i, "prefixes accepted"),
     route_flaps |-> << "int", C25_LastNum(lines, i, "Connections established") >>,
     last_reset |-> C25_Last(lines, i, "Last reset") # 0]
RECURSIVE C25_From(_, _)
C25_From(lines, i) ==
    IF i > Len(lines) THEN << >>
    ELSE IF C25_IsMarker(lines[i]) THEN << C25_Record(lines, i) >> \o C25_From(lines, i + 1)
    ELSE C25_From(lines, i + 1)

\* C25 (AnalyzerSpec): parse_bgp_neighbors returns one record per
\* "BGP neighbor is" marker line, in input order and each exactly once; the
\* labelled lines (remote AS, state, connections dropped, last reset, accepted
\* prefixes) update only the record of the most recent marker line, and lines
\* before the first marker are ignored.  In the code a marker line whose
\* address is not an IPv4 literal appends the current record without starting
\* a new one: the lines after it update the record of the marker before, and
\* that record is in the result twice.
C25_OneRecordPerMarker ==
    (an_done /\ an_fn = "BGPParser.parse_bgp_neighbors") =>
        an_out = C25_From(an_in.text, 1)


\* the rows the claim describes, as neighbor, column 10 and state: one per line
\* whose first field is an IPv4 literal and which has at least 10 fields
C26_IsRow(l) == Len(l.parts) >= 10 /\ l.parts[1] \in IPv4Tokens
C26_Numeric(field) == field \in {"0", "1", "2", "5", "7"}
C26_Row(l) ==
    [neighbor |-> l.parts[1], state_pfxrcd |-> l.parts[10],
     state |-> IF C26_Numeric(l.parts[10]) THEN "Established" ELSE l.parts[10]]
C26_Rows(lines) ==
    [k \in 1..Len(SelectSeq(lines, C26_IsRow)) |-> C26_Row(SelectSeq(lines, C26_IsRow)[k])]
C26_Got(rows) ==
    [k \in 1..Len(rows) |->
        [neighbor |-> rows[k].neighbor, state_pfxrcd |-> rows[k].state_pfxrcd,
         state |-> rows[k].state]]

\* C26 (AnalyzerSpec): parse_bgp_summary returns one row, in input order, for
\* each line that starts with an IPv4 literal and has at least 10 fields, with
\* state Established iff field 10 is numeric and state = field 10 otherwise;
\* every other line is skipped, so a text without an IPv4 line yields the empty
\* list, and the call returns for every text.
C26_SummaryParserRows ==
    /\ (an_fn = "BGPParser.parse_bgp_summary" /\ an_done) =>
           C26_Got(an_out) = C26_Rows(an_in.text)
    /\ (an_fn = "BGPParser.parse_bgp_summary" /\ an_done
           /\ \A n \in 1..Len(an_in.text) : ~IsIPv4Line(an_in.text[n])) => an_out = << >>
    /\ (an_fn = "BGPParser.parse_bgp_summary" /\ ~an_done) => ENABLED ParseBgpSummary

\* a row with a prefix count, a row cut short and a row in state Idle, in that
\* order: two rows, Established and Idle
C26_Witness ==
    /\ an_done
    /\ an_fn = "BGPParser.parse_bgp_summary"
    /\ an_in.text = << BgpRow("10.0.0.2", "5"), Text(<< "10.0.0.3", "4", "65002" >>),
                       BgpRow("10.1.12.2", "Idle") >>
    /\ Len(an_out) = 2
    /\ an_out[1].state = "Established" /\ an_out[1].neighbor = "10.0.0.2"
    /\ an_out[2].state = "Idle" /\ an_out[2].neighbor = "10.1.12.2"


\* the task is inside _clear_buffer
Draining == pc \in {"clear_buffer", "clear_buffer_reset", "clear", "clear_reset"}
\* the task is in the sleep of _clear_buffer that follows a read
Resetting == pc \in {"clear_buffer_reset", "clear_reset"}

\* C27 (FairSessionSpec): _clear_buffer returns exactly when the channel was
\* found not ready on max_attempts consecutive polls, a poll that reads data
\* restarting the count, and it returns for every behaviour of the channel.
\* In the code the loop has no other bound: while the device keeps sending,
\* every poll reads data and the count never gets off 0.
C27_DrainBounded ==
    /\ [][/\ (Draining /\ ~Draining') => (~Resetting /\ attempts = max_attempts)
          /\ (Draining /\ Draining' /\ attempts' # attempts) =>
                \/ Resetting /\ attempts' = 0
                \/ ~Resetting /\ rx = << >> /\ attempts' = attempts + 1
          /\ (Draining /\ ~Resetting /\ attempts < max_attempts /\ rx # << >>
                  /\ pc' # pc) => (Resetting' /\ rx' = << >>)
          /\ (Resetting /\ pc' # pc) => (Draining' /\ ~Resetting' /\ attempts' = 0)]_vars
    /\ Draining ~> ~Draining


\* the commands whose verdicts every HEALTHY entry needs
C28_CriticalCommands ==
    {"show ip interface brief", "show processes cpu", "show memory statistics"}

\* C28 (Spec): every entry of the report with overall_health = HEALTHY has
\* reachable = true, interface_health = Good, cpu_health = OK and
\* memory_health = OK, and the three commands are among the outputs collected
\* from the device; every entry with reachable = true has overall_health
\* HEALTHY or UNHEALTHY.
C28_HealthyHasCriticalVerdicts ==
    \A d \in DOMAIN device_summary :
        /\ Get(device_summary[d], "overall_health", Absent) = "HEALTHY" =>
              /\ Get(device_summary[d], "reachable", FALSE) = TRUE
              /\ Get(device_summary[d], "interface_health", Absent) = "Good"
              /\ Get(device_summary[d], "cpu_health", Absent) = "OK"
              /\ Get(device_summary[d], "memory_health", Absent) = "OK"
              /\ d \in Devices
              /\ C28_CriticalCommands \subseteq DOMAIN cres[d].outputs
        /\ Get(device_summary[d], "reachable", FALSE) = TRUE =>
              Get(device_summary[d], "overall_health", Absent) \in {"HEALTHY", "UNHEALTHY"}

\* the final report, explanations added, with a HEALTHY entry and a reachable
\* entry that has no CPU and no memory verdict, the session having failed
\* during the third command
C28_Witness ==
    /\ mainPc = "save"
    /\ network_analysis \in DOMAIN device_summary
    /\ \E d, e \in DeviceEntries :
          /\ device_summary[d]["overall_health"] = "HEALTHY"
          /\ device_summary[e]["reachable"] = TRUE
          /\ device_summary[e]["overall_health"] = "UNHEALTHY"
          /\ device_summary[e]["interface_health"] = "Good"
          /\ DOMAIN device_summary[e] \cap {"cpu_health", "memory_health"} = {}


\* the session ends on an exception raised after reachable was set
C29_RaisedWhenReachable ==
    /\ pc # "done"
    /\ pc' = "done"
    /\ result.reachable
    /\ result'.error # result.error

\* the outputs dicts main may be handed for the commands in keys: each
\* command with its healthy text or with no data
C29_OutputsOver(keys) ==
    { [c \in keys |-> IF c \in empty THEN NoData ELSE BaseOutputs[c]] : empty \in SUBSET keys }

\* the report entry process_device builds from a collection result
C29_Entry(collection_result) ==
    process_device("r1", TRUE, collection_result).value["r1"]

\* C29 (SessionSpec): when the session raises after reachable was set, the
\* result returned has reachable = true, the outputs of exactly the commands
\* stored so far, unchanged, and the error text; process_device analyses such
\* a result, and the entry is UNHEALTHY whenever the interface, CPU or memory
\* command is not among the outputs.
C29_PartialCollection ==
    /\ [][C29_RaisedWhenReachable =>
             /\ result'.reachable = TRUE
             /\ result'.outputs = result.outputs
             /\ DOMAIN result'.outputs = { commands[i] : i \in 1..Stored }
             /\ Stored \in {cmd_index - 1, cmd_index} \cap (0..Len(commands))
             /\ result.error = None
             /\ result'.error # None]_vars
    /\ [](pc = "done" /\ result.reachable /\ result.error # None =>
             \A outputs \in C29_OutputsOver(DOMAIN result.outputs) :
                 LET entry == C29_Entry(Reached(outputs, result.error))
                 IN  /\ entry["reachable"] = TRUE
                     /\ DOMAIN entry \cap {"error"} = {}
                     /\ ~(C28_CriticalCommands \subseteq DOMAIN outputs) =>
                            entry["overall_health"] = "UNHEALTHY")

\* the first command was stored, the channel closed while the second was
\* running, and the next send raised: the result is reachable with one
\* output and the error text
C29_Witness ==
    /\ pc = "done"
    /\ result.reachable
    /\ result.error = SocketClosed
    /\ Stored = 1
    /\ DOMAIN result.outputs = {commands[1]}
    /\ ~alive


\* the sum of one field over the buckets of the areas in S
RECURSIVE C30_Sum(_, _, _)
C30_Sum(by_area, S, field) ==
    IF S = {} THEN 0
    ELSE LET a == CHOOSE x \in S : TRUE
         IN  by_area[a][field] + C30_Sum(by_area, S \ {a}, field)

C30_Total(by_area, field) == C30_Sum(by_area, DOMAIN by_area, field)

\* C30 (AnalyzerSpec): in the verdict of BGPAnalyzer.analyze_summary
\* established_neighbors + len(down_neighbors) = total_neighbors; in the
\* verdict of OSPFAnalyzer.analyze_neighbors full_neighbors +
\* len(down_neighbors) = total_neighbors, every area bucket has total = full +
\* down, and the buckets' totals, fulls and downs add up to total_neighbors,
\* full_neighbors and len(down_neighbors).
C30_CountsConserved ==
    /\ (an_done /\ an_fn = "BGPAnalyzer.analyze_summary") =>
          an_out.established_neighbors + Len(an_out.down_neighbors) = an_out.total_neighbors
    /\ (an_done /\ an_fn = "OSPFAnalyzer.analyze_neighbors") =>
          /\ an_out.full_neighbors + Len(an_out.down_neighbors) = an_out.total_neighbors
          /\ \A a \in DOMAIN an_out.neighbors_by_area :
                an_out.neighbors_by_area[a].total =
                    an_out.neighbors_by_area[a].full + an_out.neighbors_by_area[a].down
          /\ C30_Total(an_out.neighbors_by_area, "total") = an_out.total_neighbors
          /\ C30_Total(an_out.neighbors_by_area, "full") = an_out.full_neighbors
          /\ C30_Total(an_out.neighbors_by_area, "down") = Len(an_out.down_neighbors)

\* an OSPF verdict over two areas, one with a FULL neighbor, the other with a
\* neighbor that is not FULL
C30_Witness ==
    /\ an_done
    /\ an_fn = "OSPFAnalyzer.analyze_neighbors"
    /\ an_out.total_neighbors = 2
    /\ an_out.full_neighbors = 1
    /\ Len(an_out.down_neighbors) = 1
    /\ an_out.neighbors_by_area =
          ("0.0.0.0" :> [total |-> 1, full |-> 1, down |-> 0])
          @@ ("0.0.0.1" :> [total |-> 1, full |-> 0, down |-> 1])
====
